---- MODULE Spec2Model ----
(***************************************************************************)
(* Model of unison-io-speech: the energy-based voice activity detector     *)
(* (src/src/vad.py), the client message parser (src/src/message_schema.py) *)
(* and the streaming session, session registrar and connection handler     *)
(* (src/src/websocket_handler.py).                                         *)
(*                                                                         *)
(* Conventions.                                                            *)
(*  - A Python float is a fixed-point integer in units of 1/EnergyScale.   *)
(*  - bytes / bytearray are sequences over 0..255; a base64 text is a      *)
(*    sequence of characters, each the 6-bit value of an alphabet          *)
(*    character (0..63), PadChar for '=' or JunkChar for a character       *)
(*    outside the alphabet.                                                *)
(*  - Optional[int] is <<>> (None) or <<n>>.                               *)
(*  - A numpy array is [dtype, samples].                                   *)
(*  - A coroutine is suspended at an await; a task's pc is its stack of    *)
(*    source lines, innermost first.  One step of a task runs it from the  *)
(*    await it is suspended at up to its next await.                       *)
(***************************************************************************)
EXTENDS Integers, Sequences, FiniteSets, TLC

VARIABLES
    det,      \* SpecVAD: the VoiceActivityDetector under test
    flog,     \* SpecVAD: one entry per process_frame call since the last reset()
    vlast,    \* SpecVAD: the last call made on det and what it returned
    nframes,  \* SpecVAD: frames processed so far (bounded by MaxFrames)
    mgr,      \* ws_manager, the WebSocketManager instance
    issued,   \* one entry per create_session call: the id and the ids then registered
    conn      \* per websocket: its handler's position, its session, its traffic

vadvars == <<det, flog, vlast, nframes>>

svars == <<mgr, issued, conn>>

vars == <<det, flog, vlast, nframes, mgr, issued, conn>>

(***************************************************************************)
(* Bounds of the model.                                                    *)
(***************************************************************************)
MaxFrames == 5          \* frames fed to the detector in one SpecVAD run
MaxPadFrames == 2       \* largest speech_pad_frames among the SpecVAD configs
MaxSilenceFrames == 2   \* largest silence_frames among the SpecVAD configs
SampleRate == 80        \* sample_rate of the modelled configs (frame_size = 2)
SpeechPadMs == 30       \* speech_pad_ms of a session's detector (300 in VADConfig)
SilenceDurationMs == 30 \* silence_duration_ms of a session's detector (700 in VADConfig)
PartialBytes == 4       \* buffer length above which a partial transcript is made (16000)
MaxIssued == 4          \* create_session calls in one SpecMgr run
MaxInbound == 2         \* inbound messages one handler receives
MaxBad == 1             \* inbound messages of one handler that are not well-formed
MaxTts == 2             \* start_tts_playback calls on one session
MaxCalls == 3           \* direct handle_barge_in calls in one SpecBarge run
MaxLoudRun == 12        \* leading frames of energy 0.5 in one SpecTiming run
MaxQuietRun == 92       \* frames of energy 0.0 after them in one SpecTiming run
MaxPairInbound == 1     \* inbound messages of one handler in SpecPair
MaxPairTts == 1         \* playback calls on one session in SpecPair
MaxRegistered == 2      \* sessions created in one SpecMon run
MaxPolls == 2           \* requests the monitoring endpoint serves in one SpecMon run

(***************************************************************************)
(* Program constants.                                                      *)
(***************************************************************************)
FrameDurationMs == 30       \* VADConfig.frame_duration_ms default
EnergyThreshold == 100      \* VADConfig.energy_threshold default 0.01, fixed point
MaxHistorySize == 100       \* VoiceActivityDetector.max_history_size
EnergyScale == 10000        \* fixed-point unit of a float: 1/10000
Int16Norm == 32768          \* audio_data.astype(np.float32) / 32768.0

None == <<>>
Some(x) == <<x>>

Min(a, b) == IF a < b THEN a ELSE b

(***************************************************************************)
(* Integer square root (floor), by bisection: lo*lo <= v < hi*hi.          *)
(***************************************************************************)
RECURSIVE ISqrtIter(_, _, _)
ISqrtIter(v, lo, hi) ==
    IF hi - lo <= 1 THEN lo
    ELSE LET mid == (lo + hi) \div 2
         IN  IF mid * mid <= v THEN ISqrtIter(v, mid, hi) ELSE ISqrtIter(v, lo, mid)

ISqrt(v) == ISqrtIter(v, 0, 46341)

RECURSIVE SumSq(_)
SumSq(s) == IF s = <<>> THEN 0 ELSE Head(s) * Head(s) + SumSq(Tail(s))

(***************************************************************************)
(* VADConfig and its derived properties.                                   *)
(***************************************************************************)
VADConfig(pad_ms, silence_ms, rate) ==
    [energy_threshold    |-> EnergyThreshold,
     speech_pad_ms       |-> pad_ms,
     silence_duration_ms |-> silence_ms,
     sample_rate         |-> rate,
     frame_duration_ms   |-> FrameDurationMs]

frame_size(config) == (config.sample_rate * config.frame_duration_ms) \div 1000

speech_pad_frames(config) == config.speech_pad_ms \div config.frame_duration_ms

silence_frames(config) == config.silence_duration_ms \div config.frame_duration_ms

(***************************************************************************)
(* VoiceActivityDetector.                                                  *)
(***************************************************************************)
VoiceActivityDetector(config) ==
    [config         |-> config,
     state          |-> "silence",
     speech_frames  |-> 0,
     silence_frames |-> 0,
     energy_history |-> <<>>]

\* RMS energy of a frame; int16 samples are normalised by 32768, every other
\* dtype is used as it is.
calculate_energy(audio_data) ==
    LET n == Len(audio_data.samples)
    IN  IF n = 0 THEN 0
        ELSE IF audio_data.dtype = "int16"
        THEN (ISqrt(SumSq(audio_data.samples) \div n) * EnergyScale) \div Int16Norm
        ELSE ISqrt((SumSq(audio_data.samples) * EnergyScale) \div n) * 100

\* self.energy_history.append(energy); pop(0) when longer than max_history_size
PushEnergy_DropNewest(history, energy) ==
    IF Len(history) >= MaxHistorySize THEN history ELSE Append(history, energy)

PushEnergy(history, energy) ==
    LET h == Append(history, energy)
    IN  IF Len(h) > MaxHistorySize THEN Tail(h) ELSE h

is_speech(vad, energy) == energy > vad.config.energy_threshold

\* The state machine of process_frame, given the frame's classification.
\* Returns [vad, event]; event is "none" where the code returns None.
SpeechStartReached_Late(vad, count) == count > speech_pad_frames(vad.config)

SpeechEndReached_Late(vad, count) == count > silence_frames(vad.config)

SpeechStartReached(vad, count) == count >= speech_pad_frames(vad.config)

SpeechEndReached(vad, count) == count >= silence_frames(vad.config)

StepSilence_KeepCount(vad, speech) ==
    IF speech
    THEN LET n == vad.speech_frames + 1
         IN  IF SpeechStartReached(vad, n)
             THEN [vad   |-> [vad EXCEPT !.speech_frames = n, !.state = "speech",
                                         !.silence_frames = 0],
                   event |-> "speech_start"]
             ELSE [vad |-> [vad EXCEPT !.speech_frames = n], event |-> "none"]
    ELSE [vad |-> vad, event |-> "none"]

StepSilence(vad, speech) ==
    IF speech
    THEN LET n == vad.speech_frames + 1
         IN  IF SpeechStartReached(vad, n)
             THEN [vad   |-> [vad EXCEPT !.speech_frames = n, !.state = "speech",
                                         !.silence_frames = 0],
                   event |-> "speech_start"]
             ELSE [vad |-> [vad EXCEPT !.speech_frames = n], event |-> "none"]
    ELSE [vad |-> [vad EXCEPT !.speech_frames = 0], event |-> "none"]

StepSpeech_KeepState(vad, speech) ==
    IF ~speech
    THEN LET n == vad.silence_frames + 1
         IN  IF SpeechEndReached(vad, n)
             THEN [vad   |-> [vad EXCEPT !.silence_frames = 0, !.speech_frames = 0],
                   event |-> "speech_end"]
             ELSE [vad |-> [vad EXCEPT !.silence_frames = n], event |-> "none"]
    ELSE [vad |-> [vad EXCEPT !.silence_frames = 0], event |-> "none"]

StepSpeech(vad, speech) ==
    IF ~speech
    THEN LET n == vad.silence_frames + 1
         IN  IF SpeechEndReached(vad, n)
             THEN [vad   |-> [vad EXCEPT !.silence_frames = n, !.state = "silence",
                                         !.speech_frames = 0],
                   event |-> "speech_end"]
             ELSE [vad |-> [vad EXCEPT !.silence_frames = n], event |-> "none"]
    ELSE [vad |-> [vad EXCEPT !.silence_frames = 0], event |-> "none"]

process_frame(vad, audio_data) ==
    LET energy == calculate_energy(audio_data)
        v1     == [vad EXCEPT !.energy_history = PushEnergy(@, energy)]
        speech == is_speech(v1, energy)
    IN  IF v1.state = "silence" THEN StepSilence(v1, speech)
        ELSE StepSpeech(v1, speech)

reset_KeepCounters(vad) == [vad EXCEPT !.state = "silence", !.energy_history = <<>>]

reset(vad) ==
    [vad EXCEPT !.state = "silence", !.speech_frames = 0, !.silence_frames = 0,
                !.energy_history = <<>>]

is_speaking_Never(vad) == FALSE

is_speaking(vad) == vad.state = "speech"

\* adapt_threshold: np.percentile interpolates linearly between the two sorted
\* entries around position (n - 1) * percentile / 100; the new threshold is
\* kept when it differs from the old one by more than 0.005.  The figures are
\* held in hundredths of the energy unit until the threshold is stored, which
\* rounds it down: the comparison energy > threshold is the same for every
\* energy of the model.
adapt_threshold(vad, percentile) ==
    LET h   == SortSeq(vad.energy_history, LAMBDA a, b : a < b)
        n   == Len(h)
        pos == (n - 1) * percentile
        lo  == (pos \div 100) + 1
        hi  == Min(lo + 1, n)
        new == h[lo] * 100 + (h[hi] - h[lo]) * (pos % 100)
        old == vad.config.energy_threshold * 100
        gap == IF new > old THEN new - old ELSE old - new
    IN  IF n < 10 THEN vad
        ELSE IF gap > ((5 * EnergyScale) \div 1000) * 100
        THEN [vad EXCEPT !.config.energy_threshold = new \div 100]
        ELSE vad

(***************************************************************************)
(* np.frombuffer: the bytes as little-endian items of the dtype; raises    *)
(* ValueError unless the length is a multiple of the item size.            *)
(***************************************************************************)
ItemSize(dtype) == CASE dtype = "int16" -> 2 [] dtype = "int8" -> 1 [] dtype = "float32" -> 4

Signed(u, bits) == IF u >= 2 ^ (bits - 1) THEN u - 2 ^ bits ELSE u

\* The value of one item.  float32 is modelled for the zero word only.
Item(w, dtype) ==
    CASE dtype = "int16" -> Signed(w[1] + 256 * w[2], 16)
      [] dtype = "int8" -> Signed(w[1], 8)
      [] dtype = "float32" /\ w = <<0, 0, 0, 0>> -> 0

FrombufferRaises(buffer, dtype) == Len(buffer) % ItemSize(dtype) # 0

frombuffer(buffer, dtype) ==
    LET size == ItemSize(dtype)
    IN  [dtype   |-> dtype,
         samples |-> [j \in 1..(Len(buffer) \div size) |->
                        Item(SubSeq(buffer, (j - 1) * size + 1, j * size), dtype)]]

(***************************************************************************)
(* process_chunk.                                                          *)
(***************************************************************************)
SupportedFormats == {"pcm16", "pcm8", "float32"}

FormatDtype(format) ==
    CASE format = "pcm16" -> "int16" [] format = "pcm8" -> "int8" [] format = "float32" -> "float32"

\* frame = audio_data[i:i + frame_size], zero-padded to frame_size (i is 0-based)
ChunkFrame(audio_data, i, size) ==
    LET n     == Len(audio_data.samples)
        slice == SubSeq(audio_data.samples, i + 1, Min(i + size, n))
    IN  [dtype   |-> audio_data.dtype,
         samples |-> slice \o [j \in 1..(size - Len(slice)) |-> 0]]

\* as ChunkFrames, for range(0, len(audio_data) - frame_size, frame_size)
ChunkFrames_DropLast(audio_data, size) ==
    LET n == Len(audio_data.samples)
    IN  [j \in 1..((n - 1) \div size) |-> ChunkFrame(audio_data, (j - 1) * size, size)]

\* the frames of: for i in range(0, len(audio_data), frame_size)
ChunkFrames(audio_data, size) ==
    LET n == Len(audio_data.samples)
    IN  [j \in 1..((n + size - 1) \div size) |-> ChunkFrame(audio_data, (j - 1) * size, size)]

\* What one process_frame call did, for the frame log.
LogEntry(vad, audio_data) ==
    LET r == process_frame(vad, audio_data)
    IN  [pre   |-> [state |-> vad.state, speech_frames |-> vad.speech_frames,
                    silence_frames |-> vad.silence_frames],
         loud  |-> is_speech(vad, calculate_energy(audio_data)),
         event |-> r.event,
         post  |-> [state |-> r.vad.state, speech_frames |-> r.vad.speech_frames,
                    silence_frames |-> r.vad.silence_frames]]

\* process_frame on each frame in order; events collects the non-None results.
RECURSIVE RunFrames(_, _)
RunFrames(vad, frames) ==
    IF frames = <<>> THEN [vad |-> vad, events |-> <<>>, log |-> <<>>]
    ELSE LET r    == process_frame(vad, Head(frames))
             rest == RunFrames(r.vad, Tail(frames))
         IN  [vad    |-> rest.vad,
              events |-> (IF r.event = "none" THEN <<>> ELSE <<r.event>>) \o rest.events,
              log    |-> <<LogEntry(vad, Head(frames))>> \o rest.log]

\* Returns [raised, vad, events, log]; raised: the ValueError of an unsupported
\* format, of np.frombuffer or of range() with a zero step.
process_chunk(vad, audio_chunk, format) ==
    LET failed == [raised |-> TRUE, vad |-> vad, events |-> <<>>, log |-> <<>>]
    IN  IF format \notin SupportedFormats THEN failed
        ELSE IF FrombufferRaises(audio_chunk, FormatDtype(format)) THEN failed
        ELSE LET audio_data == frombuffer(audio_chunk, FormatDtype(format))
                 size       == frame_size(vad.config)
             IN  IF size = 0 THEN failed
                 ELSE LET r == RunFrames(vad, ChunkFrames(audio_data, size))
                      IN  [raised |-> FALSE, vad |-> r.vad, events |-> r.events, log |-> r.log]

(***************************************************************************)
(* base64.b64decode(s), validate=False: binascii.a2b_base64 in its         *)
(* non-strict mode.  Characters outside the alphabet are skipped; '='      *)
(* ends the data once a quad holds at least two characters and is filled   *)
(* up by the pads; leftover characters of a quad raise binascii.Error.     *)
(***************************************************************************)
PadChar == 64
JunkChar == 65

B64Start == [quad_pos |-> 0, leftchar |-> 0, pads |-> 0, out |-> <<>>, done |-> FALSE]

B64Char(st, ch) ==
    IF ch = PadChar
    THEN IF st.quad_pos >= 2
         THEN [st EXCEPT !.pads = @ + 1, !.done = (st.quad_pos + st.pads + 1 >= 4)]
         ELSE st
    ELSE IF ch >= 64 THEN st
    ELSE CASE st.quad_pos = 0 ->
                [st EXCEPT !.pads = 0, !.quad_pos = 1, !.leftchar = ch]
           [] st.quad_pos = 1 ->
                [st EXCEPT !.pads = 0, !.quad_pos = 2, !.leftchar = ch % 16,
                           !.out = Append(@, st.leftchar * 4 + ch \div 16)]
           [] st.quad_pos = 2 ->
                [st EXCEPT !.pads = 0, !.quad_pos = 3, !.leftchar = ch % 4,
                           !.out = Append(@, st.leftchar * 16 + ch \div 4)]
           [] st.quad_pos = 3 ->
                [st EXCEPT !.pads = 0, !.quad_pos = 0, !.leftchar = 0,
                           !.out = Append(@, st.leftchar * 64 + ch)]

RECURSIVE B64Loop(_, _)
B64Loop(st, chars) ==
    IF chars = <<>> \/ st.done THEN st
    ELSE B64Loop(B64Char(st, Head(chars)), Tail(chars))

\* [raised, bytes]
b64decode(s) ==
    LET st == B64Loop(B64Start, s)
    IN  IF ~st.done /\ st.quad_pos # 0
        THEN [raised |-> TRUE, bytes |-> <<>>]
        ELSE [raised |-> FALSE, bytes |-> st.out]

(***************************************************************************)
(* message_schema.py.  A server message keeps its type and the fields the  *)
(* session sets from its own state (the timestamp, the transcript text and *)
(* the averaged energy are left out; nbytes is the buffer length the       *)
(* transcript text is made from).                                          *)
(***************************************************************************)
ServerMessage(type) ==
    [type |-> type, status |-> "", event |-> "", code |-> "", is_final |-> FALSE,
     nbytes |-> 0, cancelled_sequence |-> 0]

create_transcript_message(nbytes, is_final) ==
    [ServerMessage("transcript") EXCEPT !.is_final = is_final, !.nbytes = nbytes]

create_vad_event(event) == [ServerMessage("vad") EXCEPT !.event = event]

create_barge_in_message(cancelled_sequence) ==
    [ServerMessage("barge_in") EXCEPT !.cancelled_sequence = cancelled_sequence]

create_error_message(code) == [ServerMessage("error") EXCEPT !.code = code]

create_status_message(status) == [ServerMessage("status") EXCEPT !.status = status]

\* An inbound JSON value: an object with the keys that are present (a field
\* is <<>> when the key is absent, <<v>> when present), or another JSON value.
JsonObject(type, data, timestamp, sequence, action) ==
    [json |-> "object", type |-> type, data |-> data, timestamp |-> timestamp,
     sequence |-> sequence, action |-> action]

JsonArray == [JsonObject(None, None, None, None, None) EXCEPT !.json = "array"]

ControlActions == {"start_listening", "stop_listening", "cancel_tts"}

Parsed(raised, kind, data, action) ==
    [raised |-> raised, kind |-> kind, data |-> data, action |-> action]

\* AudioInputMessage(**data): data, timestamp and sequence are required
AudioInputMessage(data) ==
    IF data.data = None \/ data.timestamp = None \/ data.sequence = None
    THEN Parsed("ValidationError", "", <<>>, "")
    ELSE Parsed("none", "audio", data.data[1], "")

\* ControlMessage(**data): action is required and one of the three literals
ControlMessage_AnyAction(data) ==
    IF data.action = None
    THEN Parsed("ValidationError", "", <<>>, "")
    ELSE Parsed("none", "control", <<>>, data.action[1])

ControlMessage(data) ==
    IF data.action = None \/ data.action[1] \notin ControlActions
    THEN Parsed("ValidationError", "", <<>>, "")
    ELSE Parsed("none", "control", <<>>, data.action[1])

\* raised: "none", "ValueError" (unknown type, line 124), "ValidationError"
\* (pydantic's, a subclass of ValueError, raised by a variant's constructor) or
\* "AttributeError" (data.get on a value that is not a dict)
parse_client_message(data) ==
    IF data.json # "object" THEN Parsed("AttributeError", "", <<>>, "")
    ELSE IF data.type = Some("audio") THEN AudioInputMessage(data)
    ELSE IF data.type = Some("control") THEN ControlMessage(data)
    ELSE Parsed("ValueError", "", <<>>, "")

(***************************************************************************)
(* websocket_handler.py: WebSocketManager.  sessions maps an id to the     *)
(* session object, named by the websocket it was created for.  The id      *)
(* f"session-{n}" is the pair <<"session-", n>>.                           *)
(***************************************************************************)
WebSocketManager == [sessions |-> <<>>, session_counter |-> 0]

SessionId(n) == <<"session-", n>>

NextCounter_ReuseFreed(m) == Cardinality(DOMAIN m.sessions) + 1

\* self.session_counter += 1
NextCounter(m) == m.session_counter + 1

\* StreamingSession.__init__ with VADConfig(); the three figures of the
\* default configuration and the partial-transcript threshold are scaled
DefaultVADConfig == VADConfig(SpeechPadMs, SilenceDurationMs, SampleRate)

StreamingSession(websocket, session_id) ==
    [websocket |-> websocket, session_id |-> session_id,
     vad |-> VoiceActivityDetector(DefaultVADConfig),
     is_listening |-> FALSE, is_speaking |-> FALSE, audio_buffer |-> <<>>,
     sequence_counter |-> 0, tts_sequence |-> None]

\* [mgr, session]
create_session(m, websocket) ==
    LET n  == NextCounter(m)
        id == SessionId(n)
    IN  [mgr |-> [sessions |-> [k \in DOMAIN m.sessions \cup {id} |->
                                   IF k = id THEN websocket ELSE m.sessions[k]],
                  session_counter |-> n],
         session |-> StreamingSession(websocket, id)]

remove_session_Clear(m, session_id) == [m EXCEPT !.sessions = <<>>]

remove_session(m, session_id) ==
    IF session_id \in DOMAIN m.sessions
    THEN [m EXCEPT !.sessions = [k \in DOMAIN m.sessions \ {session_id} |-> m.sessions[k]]]
    ELSE m

get_session(m, session_id) ==
    IF session_id \in DOMAIN m.sessions THEN Some(m.sessions[session_id]) ELSE None

get_session_count_FromCounter(m) == m.session_counter

get_session_count(m) == Cardinality(DOMAIN m.sessions)

\* list(self.sessions.values()): the sessions, each given by its id and its
\* websocket; the keys are distinct, so the list has no repetitions and is
\* modelled by the set of its elements
get_all_sessions(m) ==
    {[session_id |-> k, websocket |-> m.sessions[k]] : k \in DOMAIN m.sessions}

Issue(m, r) == [id |-> r.session.session_id, live |-> DOMAIN m.sessions,
                websocket |-> r.session.websocket]

(***************************************************************************)
(* websocket_handler.py: one connection.  K is the record of a websocket:  *)
(*   pc          the handler coroutine's stack of source lines, innermost  *)
(*               first, each the await the frame is suspended at (<<>>     *)
(*               once the handler has returned; line 0 is a caller outside *)
(*               the repository);                                          *)
(*   transport   "open" or "closed" (the peer is gone);                    *)
(*   session     the StreamingSession; vad_events  the events of the for   *)
(*               loop at line 75 not yet finished, the current one first;  *)
(*   sent        the messages handed to websocket.send_json while the      *)
(*               transport was open;                                       *)
(*   cur         history: the inbound message being handled, the buffer    *)
(*               at its receipt, what it raised and what the handler sent  *)
(*               since; calls  history of the calls made from outside.     *)
(* An operator runs the handler from one await to the next and returns     *)
(* the new K.                                                              *)
(***************************************************************************)
NoMessage == [json |-> "none", type |-> None, data |-> None, timestamp |-> None,
              sequence |-> None, action |-> None]

Current(msg, buffer) == [msg |-> msg, buf0 |-> buffer, raised |-> "none", out |-> <<>>]

Connection(stack, session) ==
    [pc |-> stack, transport |-> "open", session |-> session, vad_events |-> <<>>,
     sent |-> <<>>, received |-> 0, bad |-> 0, recv_failed |-> FALSE, tts_calls |-> 0,
     cur |-> Current(NoMessage, <<>>), calls |-> <<>>]

Suspend(K, stack) == [K EXCEPT !.pc = stack]

\* websocket.send_json(message)
send_json(K, message) ==
    IF K.transport = "open" THEN [K EXCEPT !.sent = Append(@, message)] ELSE K

\* await self.send_message(message) at line Head(stack)
send_message(K, message, stack) ==
    [send_json(K, message) EXCEPT
        !.pc = stack,
        !.cur.out = IF K.transport = "open" THEN Append(@, message) ELSE @]

Raised(K, what) == [K EXCEPT !.cur.raised = what]

ResetTtsState_KeepSequence(session) ==
    [session EXCEPT !.is_speaking = FALSE, !.is_listening = TRUE]

ResetTtsState_KeepTurn(session) == [session EXCEPT !.is_listening = TRUE]

\* lines 185-189
ResetTtsState(session) ==
    [session EXCEPT !.is_speaking = FALSE, !.tts_sequence = None, !.is_listening = TRUE]

AudioExcept_Swallow(K, stack) == Suspend(K, <<108>> \o stack)

\* except Exception at line 102, in handle_audio_input called from Head(stack)
AudioExcept(K, stack) ==
    send_message(K, create_error_message("audio_processing_error"), <<108>> \o stack)

ExceptValueError_Reraise(K) == Suspend(K, <<>>)

\* except ValueError at line 303
ExceptValueError(K) == send_message(K, create_error_message("invalid_message"), <<309>>)

\* except Exception at line 311
ExceptException(K) == send_message(K, create_error_message("processing_error"), <<318>>)

BargeInDue_Inverted(session) == session.is_speaking /\ session.tts_sequence = None

\* the condition of lines 82 and 171
BargeInDue(session) == session.is_speaking /\ session.tts_sequence # None

RECURSIVE Continue(_, _)

\* lines 110-124, called from Head(stack)
generate_partial_transcript(K, stack) ==
    send_message(K, create_transcript_message(Len(K.session.audio_buffer), FALSE),
                 <<123>> \o stack)

\* lines 126-144, called from Head(stack)
generate_final_transcript_Always(K, stack) ==
    send_message(K, create_transcript_message(Len(K.session.audio_buffer), TRUE),
                 <<144>> \o stack)

generate_final_transcript(K, stack) ==
    IF Len(K.session.audio_buffer) = 0 THEN Continue(K, stack)
    ELSE send_message(K, create_transcript_message(Len(K.session.audio_buffer), TRUE),
                      <<144>> \o stack)

\* lines 175-182, called from Head(stack)
handle_barge_in(K, stack) ==
    IF K.session.tts_sequence = None THEN Continue(K, stack)
    ELSE send_message(K, create_barge_in_message(K.session.tts_sequence[1]),
                      <<182>> \o stack)

\* lines 98-100: the for loop is over
AfterEvents_IgnoreState(K, stack) ==
    IF Len(K.session.audio_buffer) > PartialBytes
    THEN generate_partial_transcript(K, <<100>> \o stack)
    ELSE Continue(K, <<100>> \o stack)

AfterEvents(K, stack) ==
    IF is_speaking(K.session.vad) /\ Len(K.session.audio_buffer) > PartialBytes
    THEN generate_partial_transcript(K, <<100>> \o stack)
    ELSE Continue(K, <<100>> \o stack)

\* lines 75-77: the next event of the loop, if any
EventLoop_FireAndForget(K, stack) ==
    IF K.vad_events = <<>> THEN Suspend(K, <<289>>)
    ELSE [send_json(K, create_vad_event(Head(K.vad_events))) EXCEPT !.pc = <<289>>]

EventLoop_StatusFirst(K, stack) ==
    IF K.vad_events = <<>> THEN AfterEvents(K, stack)
    ELSE IF Head(K.vad_events) = "speech_end"
    THEN generate_final_transcript([K EXCEPT !.session.is_listening = FALSE],
                                   <<92>> \o stack)
    ELSE send_message(K, create_vad_event(Head(K.vad_events)), <<77>> \o stack)

EventLoop(K, stack) ==
    IF K.vad_events = <<>> THEN AfterEvents(K, stack)
    ELSE send_message(K, create_vad_event(Head(K.vad_events)), <<77>> \o stack)

\* lines 79-83 and 89-92: the VadEvent message is out
After77_KeepListening(K, stack) ==
    IF Head(K.vad_events) = "speech_start"
    THEN IF BargeInDue(K.session)
         THEN handle_barge_in(K, <<83>> \o stack)
         ELSE Continue(K, <<83>> \o stack)
    ELSE generate_final_transcript([K EXCEPT !.session.is_listening = FALSE],
                                   <<92>> \o stack)

After77_AnyEvent(K, stack) ==
    LET K1 == [K EXCEPT !.session.is_listening = TRUE]
    IN  IF BargeInDue(K1.session)
        THEN handle_barge_in(K1, <<83>> \o stack)
        ELSE IF Head(K.vad_events) = "speech_start"
        THEN Continue(K1, <<83>> \o stack)
        ELSE generate_final_transcript([K EXCEPT !.session.is_listening = FALSE],
                                       <<92>> \o stack)

After77(K, stack) ==
    IF Head(K.vad_events) = "speech_start"
    THEN LET K1 == [K EXCEPT !.session.is_listening = TRUE]
         IN  IF BargeInDue(K1.session)
             THEN handle_barge_in(K1, <<83>> \o stack)
             ELSE Continue(K1, <<83>> \o stack)
    ELSE generate_final_transcript([K EXCEPT !.session.is_listening = FALSE],
                                   <<92>> \o stack)

\* the frame at line Head(stack) goes on after that line: after its await
\* has returned, or after the coroutine it called there has returned
Continue(K, stack) ==
    LET line == Head(stack)
        rest == Tail(stack)
    IN  CASE line = 0 -> Suspend(K, <<0>>)
          [] line = 77 -> After77(K, rest)
          [] line = 83 -> send_message(K, create_status_message("listening"), <<87>> \o rest)
          [] line \in {87, 96} -> EventLoop([K EXCEPT !.vad_events = Tail(@)], rest)
          [] line = 92 -> send_message(K, create_status_message("processing"), <<96>> \o rest)
          [] line \in {100, 108, 123, 158, 167, 172, 191} -> Continue(K, rest)
          [] line = 144 -> Continue([K EXCEPT !.session.audio_buffer = <<>>], rest)
          [] line = 164 ->
                send_message([K EXCEPT !.session.vad = reset(@)],
                             create_status_message("connected"), <<167>> \o rest)
          [] line = 182 ->
                send_message([K EXCEPT !.session = ResetTtsState(@)],
                             create_status_message("listening"), <<191>> \o rest)
          [] line \in {284, 297, 299, 309, 318} -> Suspend(K, <<289>>)

\* an exception leaves the frame at line Head(stack)
RECURSIVE Raise(_, _)
Raise(K, stack) ==
    LET line == Head(stack)
        rest == Tail(stack)
    IN  CASE line = 0 -> Suspend(K, <<0>>)
          [] line \in {77, 83, 87, 92, 96, 100} -> AudioExcept(K, rest)
          [] line \in {108, 123, 144, 158, 164, 167, 172, 182, 191} -> Raise(K, rest)
          [] line \in {297, 299} -> ExceptException(K)
          [] line \in {276, 284, 289, 309, 318} -> Suspend(K, <<>>)

\* lines 64-72
handle_audio_input_AppendAfterVad(K, message, stack) ==
    LET d  == b64decode(message.data)
        K1 == [K EXCEPT !.session.audio_buffer = @ \o d.bytes]
        r  == process_chunk(K.session.vad, d.bytes, "pcm16")
    IN  IF d.raised THEN AudioExcept(Raised(K, "binascii.Error"), stack)
        ELSE IF r.raised THEN AudioExcept(Raised(K, "ValueError in process_chunk"), stack)
        ELSE EventLoop([K1 EXCEPT !.session.vad = r.vad, !.vad_events = r.events], stack)

handle_audio_input(K, message, stack) ==
    LET d  == b64decode(message.data)
        K1 == [K EXCEPT !.session.audio_buffer = @ \o d.bytes]
        r  == process_chunk(K.session.vad, d.bytes, "pcm16")
    IN  IF d.raised THEN AudioExcept(Raised(K, "binascii.Error"), stack)
        ELSE IF r.raised THEN AudioExcept(Raised(K1, "ValueError in process_chunk"), stack)
        ELSE EventLoop([K1 EXCEPT !.session.vad = r.vad, !.vad_events = r.events], stack)

\* lines 150-172
handle_control(K, message, stack) ==
    CASE message.action = "start_listening" ->
            send_message([K EXCEPT !.session.is_listening = TRUE, !.session.vad = reset(@)],
                         create_status_message("listening"), <<158>> \o stack)
      [] message.action = "stop_listening" ->
            LET K1 == [K EXCEPT !.session.is_listening = FALSE]
            IN  IF is_speaking(K.session.vad)
                THEN generate_final_transcript(K1, <<164>> \o stack)
                ELSE Continue(K1, <<164>> \o stack)
      [] message.action = "cancel_tts" ->
            IF BargeInDue(K.session)
            THEN handle_barge_in(K, <<172>> \o stack)
            ELSE Continue(K, <<172>> \o stack)

\* lines 289-318: receive_json returned data
LoopBody(K, data) ==
    LET K1 == [K EXCEPT !.received = @ + 1,
                        !.cur = Current(data, K.session.audio_buffer)]
        message == parse_client_message(data)
    IN  CASE message.raised \in {"ValueError", "ValidationError"} ->
                ExceptValueError(Raised(K1, message.raised))
          [] message.raised = "AttributeError" -> ExceptException(Raised(K1, "AttributeError"))
          [] message.kind = "audio" -> handle_audio_input(K1, message, <<297>>)
          [] message.kind = "control" -> handle_control(K1, message, <<299>>)

\* lines 195-200 and 203-208, run by the orchestrator's task
start_tts_playback(K, sequence) ==
    send_json([K EXCEPT !.session.is_speaking = TRUE,
                        !.session.tts_sequence = Some(sequence)],
              create_status_message("speaking"))

end_tts_playback_KeepSequence(K) ==
    send_json([K EXCEPT !.session.is_speaking = FALSE], create_status_message("listening"))

end_tts_playback(K) ==
    send_json([K EXCEPT !.session.is_speaking = FALSE, !.session.tts_sequence = None],
              create_status_message("listening"))

Finally_KeepSession(m, K) == m

\* line 328
Finally(m, K) == remove_session(m, K.session.session_id)

(***************************************************************************)
(* SpecVAD: one detector, driven by process_frame, process_chunk, reset.   *)
(***************************************************************************)
Rep(w, n) == [j \in 1..(n * Len(w)) |-> w[((j - 1) % Len(w)) + 1]]

LoudSample == <<0, 64>>      \* int16 16384: energy 0.5
ZeroSample == <<0, 0>>

VadConfigs ==
    {VADConfig(FrameDurationMs * n + 15, FrameDurationMs * m + 15, SampleRate) :
        n \in 0..MaxPadFrames, m \in 0..MaxSilenceFrames}

\* arrays handed to process_frame directly
FrameInputs ==
    {[dtype |-> "int16", samples |-> <<16384, 16384>>],
     [dtype |-> "int16", samples |-> <<0, 0>>],
     [dtype |-> "int16", samples |-> <<>>]}

\* <<bytes, format>> handed to process_chunk
ChunkInputs ==
    {<<Rep(LoudSample, 2), "pcm16">>,
     <<Rep(LoudSample, 4), "pcm16">>,
     <<Rep(ZeroSample, 2), "pcm16">>,
     <<Rep(LoudSample, 2) \o Rep(ZeroSample, 2), "pcm16">>,
     <<Rep(LoudSample, 1), "pcm16">>,
     <<Rep(LoudSample, 1) \o <<0>>, "pcm16">>,
     <<<<>>, "pcm16">>,
     <<<<0, 0, 0, 0>>, "pcm8">>,
     <<<<0, 0, 0>>, "pcm8">>,
     <<<<0, 0, 0, 0, 0, 0, 0, 0>>, "float32">>,
     <<Rep(LoudSample, 2), "mp3">>}

NoCall == [op |-> "none", pre |-> VoiceActivityDetector(VADConfig(0, 0, 0)),
           chunk |-> <<>>, format |-> "", raised |-> FALSE, events |-> <<>>]

InitVAD ==
    /\ det \in {VoiceActivityDetector(c) : c \in VadConfigs}
    /\ flog = <<>>
    /\ vlast = NoCall
    /\ nframes = 0
    /\ mgr = WebSocketManager
    /\ issued = <<>>
    /\ conn = <<>>

VProcessFrame(audio_data) ==
    /\ nframes < MaxFrames
    /\ det' = process_frame(det, audio_data).vad
    /\ flog' = Append(flog, LogEntry(det, audio_data))
    /\ vlast' = [NoCall EXCEPT !.op = "process_frame"]
    /\ nframes' = nframes + 1
    /\ UNCHANGED svars

VProcessChunk(audio_chunk, format) ==
    LET r == process_chunk(det, audio_chunk, format)
    IN  /\ nframes + Len(r.log) <= MaxFrames
        /\ det' = r.vad
        /\ flog' = flog \o r.log
        /\ vlast' = [op |-> "process_chunk", pre |-> det, chunk |-> audio_chunk,
                     format |-> format, raised |-> r.raised, events |-> r.events]
        /\ nframes' = nframes + Len(r.log)
        /\ UNCHANGED svars

\* reset() is followed by a run of its own, like that of a new detector
VReset ==
    /\ nframes > 0
    /\ det' = reset(det)
    /\ flog' = <<>>
    /\ vlast' = [NoCall EXCEPT !.op = "reset"]
    /\ nframes' = 0
    /\ UNCHANGED svars

NextVAD ==
    \/ \E f \in FrameInputs : VProcessFrame(f)
    \/ \E c \in ChunkInputs : VProcessChunk(c[1], c[2])
    \/ VReset

SpecVAD == InitVAD /\ [][NextVAD]_vars

(***************************************************************************)
(* SpecTiming: a fresh detector with speech_pad_ms = 300 and a silence     *)
(* duration of 690 or 720 ms, fed a run of frames of energy 0.5 and then   *)
(* frames of energy 0.0 through process_frame.                             *)
(***************************************************************************)
TimingConfigs == {VADConfig(300, 690, SampleRate), VADConfig(300, 720, SampleRate)}

InitTiming ==
    /\ det \in {VoiceActivityDetector(c) : c \in TimingConfigs}
    /\ flog = <<>>
    /\ vlast = NoCall
    /\ nframes = 0
    /\ mgr = WebSocketManager
    /\ issued = <<>>
    /\ conn = <<>>

TFrame(audio_data) ==
    /\ det' = process_frame(det, audio_data).vad
    /\ flog' = Append(flog, LogEntry(det, audio_data))
    /\ vlast' = [NoCall EXCEPT !.op = "process_frame"]
    /\ nframes' = nframes + 1
    /\ UNCHANGED svars

TLoud ==
    /\ nframes < MaxLoudRun
    /\ flog # <<>> => flog[Len(flog)].loud
    /\ TFrame([dtype |-> "int16", samples |-> <<16384, 16384>>])   \* energy 0.5

TQuiet ==
    /\ nframes < MaxLoudRun + MaxQuietRun
    /\ TFrame([dtype |-> "int16", samples |-> <<0, 0>>])           \* energy 0.0

NextTiming == TLoud \/ TQuiet

SpecTiming == InitTiming /\ [][NextTiming]_vars

(***************************************************************************)
(* SpecReset: the detector of SpecTiming with adapt_threshold and reset    *)
(* called at any point of the run; a run starts again after a reset.       *)
(***************************************************************************)
AdaptThreshold(percentile) ==
    /\ det' = adapt_threshold(det, percentile)
    /\ vlast' = [NoCall EXCEPT !.op = "adapt_threshold"]
    /\ UNCHANGED <<flog, nframes, svars>>

NextReset ==
    \/ TLoud
    \/ TQuiet
    \/ \E percentile \in {50, 75} : AdaptThreshold(percentile)
    \/ VReset

SpecReset == InitTiming /\ [][NextReset]_vars

(***************************************************************************)
(* SpecMgr: the registrar alone, create_session and remove_session called  *)
(* in any order for two websockets.                                        *)
(***************************************************************************)
Websockets == {"ws1", "ws2"}

VadIdle ==
    /\ det = VoiceActivityDetector(DefaultVADConfig)
    /\ flog = <<>>
    /\ vlast = NoCall
    /\ nframes = 0

InitMgr ==
    /\ VadIdle
    /\ mgr = WebSocketManager
    /\ issued = <<>>
    /\ conn = <<>>

CreateSession(websocket) ==
    LET r == create_session(mgr, websocket)
    IN  /\ Len(issued) < MaxIssued
        /\ mgr' = r.mgr
        /\ issued' = Append(issued, Issue(mgr, r))
        /\ UNCHANGED <<conn, vadvars>>

RemoveSession(session_id) ==
    /\ mgr' = remove_session(mgr, session_id)
    /\ UNCHANGED <<issued, conn, vadvars>>

NextMgr ==
    \/ \E w \in Websockets : CreateSession(w)
    \/ \E n \in 1..MaxIssued : RemoveSession(SessionId(n))

SpecMgr == InitMgr /\ [][NextMgr]_vars

(***************************************************************************)
(* Spec: one websocket served by handle_websocket_stream, its client, the  *)
(* orchestrator's playback calls and the loss of the connection.           *)
(***************************************************************************)
B64Loud == <<0, 4, 0, 0, 16, 0, 64, 64>>                    \* "AEAAQA==": 00 40 00 40
B64Quiet == <<0, 0, 0, 0, 0, 0, 64, 64>>                    \* "AAAAAA==": 00 00 00 00
B64QuietLoud == <<0, 0, 0, 0, 0, 0, 1, 0, 0, 4, 0, 64>>     \* "AAAAAABAAEA="
B64Truncated == <<0, 4, 0, 0, 16>>                          \* "AEAAQ": b64decode raises
B64Junk == <<0, 4, 0, 0, JunkChar, 16, 0, 64, 64>>              \* "AEAA!QA==": 00 40 00 40
B64Odd == <<0, 0, 64, 64>>                                  \* "AA==": one byte
B64Empty == <<>>
\* "AEAAQAAAAAAAQABAAAAAAABAAEA=": loud, quiet, loud, quiet, loud frames
B64Bursts == <<0, 4, 0, 0, 16, 0, 0, 0, 0, 0, 0, 0, 16, 0, 1, 0, 0, 0, 0, 0, 0, 0, 1, 0, 0, 4, 0, 64>>

AudioJson(data) == JsonObject(Some("audio"), Some(data), Some(0), Some(0), None)

ControlJson(action) == JsonObject(Some("control"), None, None, None, Some(action))

GoodMessages ==
    {AudioJson(d) : d \in {B64Loud, B64Quiet, B64QuietLoud}}
        \cup {ControlJson(a) : a \in ControlActions}

BadMessages ==
    {AudioJson(d) : d \in {B64Truncated, B64Junk, B64Odd, B64Empty}}
        \cup {JsonObject(Some("audio"), None, Some(0), Some(0), None),
              ControlJson("mute"),
              JsonObject(Some("ping"), None, None, None, None),
              JsonObject(None, Some(B64Loud), Some(0), Some(0), None),
              JsonArray}

InboundMessages == GoodMessages \cup BadMessages

TtsSequences == 1..MaxTts

NoSession == StreamingSession("", None)

Clients == {"ws1"}

Init ==
    /\ VadIdle
    /\ mgr = WebSocketManager
    /\ issued = <<>>
    /\ conn = [c \in Clients |-> Connection(<<276>>, NoSession)]

Registered(K) == get_session(mgr, K.session.session_id) # None

Set_Shared(c, K) == conn' = [x \in DOMAIN conn |-> [conn[x] EXCEPT !.session = K.session]]

Set(c, K) == conn' = [conn EXCEPT ![c] = K]

\* line 276 returned: lines 279-284
Accept_LoopFirst(c) ==
    LET K == conn[c]
        r == create_session(mgr, c)
    IN  /\ K.pc = <<276>> /\ K.transport = "open"
        /\ mgr' = r.mgr
        /\ issued' = Append(issued, Issue(mgr, r))
        /\ Set(c, Suspend([K EXCEPT !.session = r.session], <<289>>))
        /\ UNCHANGED vadvars

Accept(c) ==
    LET K == conn[c]
        r == create_session(mgr, c)
    IN  /\ K.pc = <<276>> /\ K.transport = "open"
        /\ mgr' = r.mgr
        /\ issued' = Append(issued, Issue(mgr, r))
        /\ Set(c, send_message([K EXCEPT !.session = r.session],
                               create_status_message("connected"), <<284>>))
        /\ UNCHANGED vadvars

\* the event loop resumes the handler: the awaited send has returned, or the
\* awaited call raises because the peer is gone
Resume(c) ==
    LET K  == conn[c]
        K2 == IF K.transport = "closed" THEN Raise(K, K.pc) ELSE Continue(K, K.pc)
    IN  /\ K.pc # <<>> /\ Head(K.pc) # 0
        /\ K.transport = "closed" \/ Head(K.pc) \notin {276, 289}
        /\ Set(c, K2)
        /\ mgr' = IF K2.pc = <<>> /\ K.pc # <<276>> THEN Finally(mgr, K2) ELSE mgr
        /\ UNCHANGED <<issued, vadvars>>

\* receive_json returns the next JSON value of the client
Receive(c, data) ==
    LET K == conn[c]
    IN  /\ K.pc = <<289>> /\ K.transport = "open"
        /\ K.received < MaxInbound
        /\ data \in BadMessages => K.bad < MaxBad
        /\ Set(c, LoopBody([K EXCEPT !.bad = IF data \in BadMessages THEN @ + 1 ELSE @],
                            data))
        /\ UNCHANGED <<mgr, issued, vadvars>>

\* receive_json raises on a frame it cannot decode (not JSON text)
ReceiveRaises(c) ==
    LET K  == conn[c]
        K2 == Raise([K EXCEPT !.recv_failed = TRUE], K.pc)
    IN  /\ K.pc = <<289>> /\ K.transport = "open"
        /\ Set(c, K2)
        /\ mgr' = Finally(mgr, K2)
        /\ UNCHANGED <<issued, vadvars>>

Disconnect(c) ==
    /\ conn[c].pc # <<>> /\ conn[c].transport = "open"
    /\ Set(c, [conn[c] EXCEPT !.transport = "closed"])
    /\ UNCHANGED <<mgr, issued, vadvars>>

\* history of a call made from outside the handler: the session before it
Called(K, op, arg) ==
    [K EXCEPT !.calls = Append(@, [op |-> op, arg |-> arg, sent0 |-> Len(K.sent),
                                   session0 |-> K.session])]

StartTts(c, sequence) ==
    LET K == conn[c]
    IN  /\ Registered(K) /\ K.tts_calls < MaxTts
        /\ Set(c, start_tts_playback(
                      [Called(K, "start_tts_playback", sequence) EXCEPT !.tts_calls = @ + 1], sequence))
        /\ UNCHANGED <<mgr, issued, vadvars>>

EndTts(c) ==
    LET K == conn[c]
    IN  /\ Registered(K) /\ K.tts_calls < MaxTts
        /\ Set(c, end_tts_playback(
                      [Called(K, "end_tts_playback", 0) EXCEPT !.tts_calls = @ + 1]))
        /\ UNCHANGED <<mgr, issued, vadvars>>

Next ==
    \/ \E c \in Clients : Accept(c)
    \/ \E c \in Clients : Resume(c)
    \/ \E c \in Clients, data \in InboundMessages : Receive(c, data)
    \/ \E c \in Clients : ReceiveRaises(c)
    \/ \E c \in Clients : Disconnect(c)
    \/ \E c \in Clients, sequence \in TtsSequences : StartTts(c, sequence)
    \/ \E c \in Clients : EndTts(c)

Spec == Init /\ [][Next]_vars

\* the event loop runs a coroutine whose awaited call has completed or failed
SpecFair == Spec /\ WF_vars(\E c \in Clients : Resume(c))

(***************************************************************************)
(* SpecPair: two websockets served at once, each by its own                *)
(* handle_websocket_stream coroutine on the one event loop, with the       *)
(* orchestrator's playback calls on either session.                        *)
(***************************************************************************)
Peers == {"ws1", "ws2"}

PairMessages == {AudioJson(B64Loud), ControlJson("start_listening"), ControlJson("cancel_tts")}

InitPair ==
    /\ VadIdle
    /\ mgr = WebSocketManager
    /\ issued = <<>>
    /\ conn = [c \in Peers |-> Connection(<<276>>, NoSession)]

NextPair ==
    \/ \E c \in Peers : Accept(c)
    \/ \E c \in Peers : Resume(c)
    \/ \E c \in Peers, data \in PairMessages : conn[c].received < MaxPairInbound /\ Receive(c, data)
    \/ \E c \in Peers : conn[c].tts_calls < MaxPairTts /\ StartTts(c, 1)
    \/ \E c \in Peers : conn[c].tts_calls < MaxPairTts /\ EndTts(c)

SpecPair == InitPair /\ [][NextPair]_vars

(***************************************************************************)
(* SpecMon: the registrar used from two threads.  The connection tasks and *)
(* every other coroutine run on the event loop's thread, and                *)
(* create_session and remove_session hold no await, so no coroutine runs    *)
(* between their lines; server.get_sessions is a plain def endpoint, which  *)
(* the framework runs on a worker thread, so its two reads (lines 107 and   *)
(* 111) may fall between any two lines the event loop's thread executes.    *)
(* One operation on the dict (a store, a del, a membership test, len, the   *)
(* copy list(values())) is one step.                                        *)
(*   conn.loop   pc: the line the event loop's thread stands before (0: not *)
(*               in the registrar), the arguments of the call in progress,  *)
(*               history: the ids removed and the last get_session result;  *)
(*   conn.mon    pc of the worker thread (0: no request in progress), the   *)
(*               list read at line 107, the last response and their number. *)
(***************************************************************************)
InitMon ==
    /\ VadIdle
    /\ mgr = WebSocketManager
    /\ issued = <<>>
    /\ conn = [loop |-> [pc |-> 0, websocket |-> "", session_id |-> None,
                         removed |-> {}, got |-> None],
               mon  |-> [pc |-> 0, sessions |-> {}, response |-> None, polls |-> 0]]

\* create_session, line 235
CreateBegin(websocket) ==
    /\ conn.loop.pc = 0
    /\ Len(issued) < MaxRegistered
    /\ mgr' = [mgr EXCEPT !.session_counter = NextCounter(mgr)]
    /\ conn' = [conn EXCEPT !.loop.pc = 236, !.loop.websocket = websocket]
    /\ UNCHANGED <<issued, vadvars>>

\* create_session, lines 236-240
CreateEnd ==
    LET id == SessionId(mgr.session_counter)
        session == StreamingSession(conn.loop.websocket, id)
    IN  /\ conn.loop.pc = 236
        /\ mgr' = [mgr EXCEPT !.sessions = [k \in DOMAIN mgr.sessions \cup {id} |->
                                   IF k = id THEN session.websocket ELSE mgr.sessions[k]]]
        /\ issued' = Append(issued, [id |-> id, live |-> DOMAIN mgr.sessions,
                                     websocket |-> session.websocket])
        /\ conn' = [conn EXCEPT !.loop.pc = 0, !.loop.websocket = ""]
        /\ UNCHANGED vadvars

\* remove_session, line 244
RemoveBegin(session_id) ==
    /\ conn.loop.pc = 0
    /\ conn' = [conn EXCEPT !.loop.pc = IF session_id \in DOMAIN mgr.sessions THEN 245 ELSE 0,
                            !.loop.session_id = IF session_id \in DOMAIN mgr.sessions
                                                THEN session_id ELSE None]
    /\ UNCHANGED <<mgr, issued, vadvars>>

\* remove_session, lines 245-246
RemoveEnd ==
    /\ conn.loop.pc = 245
    /\ mgr' = remove_session(mgr, conn.loop.session_id)
    /\ conn' = [conn EXCEPT !.loop.pc = 0, !.loop.session_id = None,
                            !.loop.removed = @ \cup {conn.loop.session_id}]
    /\ UNCHANGED <<issued, vadvars>>

\* get_session called by a coroutine
Lookup(session_id) ==
    /\ conn.loop.pc = 0
    /\ conn' = [conn EXCEPT !.loop.got = Some([session_id |-> session_id,
                                               session |-> get_session(mgr, session_id)])]
    /\ UNCHANGED <<mgr, issued, vadvars>>

\* server.get_sessions, line 107
MonList ==
    /\ conn.mon.pc = 0
    /\ conn.mon.polls < MaxPolls
    /\ conn' = [conn EXCEPT !.mon.pc = 111, !.mon.sessions = get_all_sessions(mgr)]
    /\ UNCHANGED <<mgr, issued, vadvars>>

\* server.get_sessions, lines 109-114
MonCount ==
    /\ conn.mon.pc = 111
    /\ conn' = [conn EXCEPT !.mon.pc = 0, !.mon.polls = @ + 1, !.mon.sessions = {},
                            !.mon.response = Some([count |-> get_session_count(mgr),
                                                   sessions |-> conn.mon.sessions])]
    /\ UNCHANGED <<mgr, issued, vadvars>>

NextMon ==
    \/ \E w \in Websockets : CreateBegin(w)
    \/ CreateEnd
    \/ \E n \in 1..MaxRegistered : RemoveBegin(SessionId(n))
    \/ RemoveEnd
    \/ \E n \in 1..MaxRegistered : Lookup(SessionId(n))
    \/ MonList
    \/ MonCount

SpecMon == InitMon /\ [][NextMon]_vars

(***************************************************************************)
(* SpecBursts: the handler of Spec with a client whose audio messages hold *)
(* several bursts of speech, so that one chunk yields several events.      *)
(***************************************************************************)
BurstMessages ==
    {AudioJson(B64Bursts), AudioJson(B64Loud), AudioJson(B64Quiet),
     ControlJson("stop_listening")}

NextBursts ==
    \/ \E c \in Clients : Accept(c)
    \/ \E c \in Clients : Resume(c)
    \/ \E c \in Clients, data \in BurstMessages : Receive(c, data)
    \/ \E c \in Clients : Disconnect(c)
    \/ \E c \in Clients : StartTts(c, 1)

SpecBursts == Init /\ [][NextBursts]_vars

(***************************************************************************)
(* SpecBarge: handle_barge_in called directly on a registered session, one *)
(* call after the other, with the orchestrator's playback calls.           *)
(***************************************************************************)
SessionSnapshots(session) ==
    {session,
     [session EXCEPT !.is_listening = TRUE],
     [session EXCEPT !.is_listening = TRUE,
                     !.audio_buffer = b64decode(B64Loud).bytes,
                     !.vad = process_chunk(session.vad, b64decode(B64Loud).bytes, "pcm16").vad]}

InitBarge ==
    LET r == create_session(WebSocketManager, "ws1")
    IN  /\ VadIdle
        /\ mgr = r.mgr
        /\ issued = <<Issue(WebSocketManager, r)>>
        /\ conn \in {[c \in Clients |-> Connection(<<0>>, session)] :
                        session \in SessionSnapshots(r.session)}

BargeInCalls(K) == Cardinality({i \in 1..Len(K.calls) : K.calls[i].op = "handle_barge_in"})

CallBargeIn(c) ==
    LET K == conn[c]
    IN  /\ K.pc = <<0>>
        /\ BargeInCalls(K) < MaxCalls
        /\ Set(c, handle_barge_in(Called(K, "handle_barge_in", 0), <<0>>))
        /\ UNCHANGED <<mgr, issued, vadvars>>

NextBarge ==
    \/ \E c \in Clients : CallBargeIn(c)
    \/ \E c \in Clients : Resume(c)
    \/ \E c \in Clients, sequence \in TtsSequences : StartTts(c, sequence)
    \/ \E c \in Clients : EndTts(c)

SpecBarge == InitBarge /\ [][NextBarge]_vars

(***************************************************************************)
(* Claims about barge-in (Spec, SpecBarge).                                *)
(***************************************************************************)
Stepped(c) == conn'[c].pc # conn[c].pc

Sends(c, message) == conn'[c].sent = Append(conn[c].sent, message)

TtsActive(K) == K.session.is_speaking /\ K.session.tts_sequence # None

\* C1 as the specification states it: when the handler takes up a speech_start
\* event while is_speaking holds and tts_sequence = S, the next message the
\* session sends is BargeIn(S).
C1_Original_NextMessageIsBargeIn ==
    [][\A c \in DOMAIN conn :
          ( /\ Stepped(c)
            /\ conn[c].transport = "open"
            /\ conn'[c].pc = <<77, 297>>
            /\ Head(conn'[c].vad_events) = "speech_start"
            /\ TtsActive(conn'[c]) )
          => Sends(c, create_barge_in_message(conn[c].session.tts_sequence[1]))]_vars

\* C1: in handle_audio_input the VadEvent(speech_start) message goes out first;
\* if is_speaking holds and tts_sequence = S when that send has returned, the
\* next two messages the handler sends are BargeIn(S) and then Status(listening),
\* and with the second one tts_sequence is unset and is_speaking is false.
C1_BargeInAfterVadEvent ==
    [][\A c \in DOMAIN conn :
          /\ ( /\ Stepped(c)
               /\ conn[c].transport = "open"
               /\ conn[c].pc = <<77, 297>>
               /\ Head(conn[c].vad_events) = "speech_start"
               /\ TtsActive(conn[c]) )
             => /\ conn[c].cur.out[Len(conn[c].cur.out)] = create_vad_event("speech_start")
                /\ Sends(c, create_barge_in_message(conn[c].session.tts_sequence[1]))
                /\ conn'[c].pc = <<182, 83, 297>>
          /\ ( /\ Stepped(c)
               /\ conn[c].transport = "open"
               /\ conn[c].pc = <<182, 83, 297>> )
             => /\ Sends(c, create_status_message("listening"))
                /\ conn'[c].pc = <<191, 83, 297>>
                /\ conn'[c].session.tts_sequence = None
                /\ ~conn'[c].session.is_speaking]_vars

C1_Witness ==
    \E c \in DOMAIN conn :
        LET K == conn[c]
            n == Len(K.cur.out)
        IN  /\ K.pc = <<191, 83, 297>>
            /\ n >= 3
            /\ K.cur.out[n - 2] = create_vad_event("speech_start")
            /\ K.cur.out[n - 1].type = "barge_in"
            /\ K.cur.out[n] = create_status_message("listening")
            /\ K.session.tts_sequence = None /\ ~K.session.is_speaking

LastCalls(K, n) == SubSeq(K.calls, Len(K.calls) - n + 1, Len(K.calls))

SentSince(K, n) == SubSeq(K.sent, n + 1, Len(K.sent))

\* C2: a call of handle_barge_in with tts_sequence unset sends nothing and
\* leaves the session as it was; two calls in a row, the first made while a
\* TTS turn S is active, send BargeIn(S) and Status(listening) exactly once.
C2_BargeInIdempotent ==
    \A c \in DOMAIN conn :
        LET K == conn[c]
        IN  K.pc = <<0>> =>
              /\ ( /\ Len(K.calls) >= 1
                   /\ LastCalls(K, 1)[1].op = "handle_barge_in"
                   /\ LastCalls(K, 1)[1].session0.tts_sequence = None )
                 => /\ K.session = LastCalls(K, 1)[1].session0
                    /\ Len(K.sent) = LastCalls(K, 1)[1].sent0
              /\ ( /\ Len(K.calls) >= 2
                   /\ LastCalls(K, 2)[1].op = "handle_barge_in"
                   /\ LastCalls(K, 2)[1].session0.tts_sequence # None
                   /\ LastCalls(K, 2)[2].op = "handle_barge_in" )
                 => /\ SentSince(K, LastCalls(K, 2)[1].sent0) =
                          << create_barge_in_message(
                                 LastCalls(K, 2)[1].session0.tts_sequence[1]),
                             create_status_message("listening") >>
                    /\ K.session.tts_sequence = None
                    /\ ~K.session.is_speaking

C2_Witness ==
    \E c \in DOMAIN conn :
        LET K == conn[c]
        IN  /\ K.pc = <<0>>
            /\ Len(K.calls) >= 3
            /\ LastCalls(K, 3)[1].op = "start_tts_playback"
            /\ LastCalls(K, 3)[2].op = "handle_barge_in"
            /\ LastCalls(K, 3)[2].session0.tts_sequence = Some(LastCalls(K, 3)[1].arg)
            /\ LastCalls(K, 3)[3].op = "handle_barge_in"
            /\ LastCalls(K, 3)[3].session0.tts_sequence = None
            /\ Len(K.sent) = LastCalls(K, 3)[3].sent0

(***************************************************************************)
(* Claims about the registrar (SpecMgr).                                   *)
(***************************************************************************)
\* C7: the ids create_session issues are pairwise distinct and their numbers
\* strictly increase in the order of issue, whatever removals come between;
\* an id is never issued again after its session was removed.
C7_SessionIdsUniqueIncreasing ==
    \A i, j \in 1..Len(issued) :
        i < j => /\ issued[i].id # issued[j].id
                 /\ issued[i].id[2] < issued[j].id[2]

C7_Witness ==
    /\ Len(issued) >= 3
    /\ \E i, j \in 1..Len(issued) :
          /\ i < j /\ j < Len(issued)
          /\ issued[i].id \notin issued[j].live
          /\ issued[j].id \notin issued[Len(issued)].live

\* C17: get_session(id) returns the session created with that id exactly while
\* it is created and not yet removed, and None otherwise (also for an id never
\* issued); get_all_sessions and get_session_count give exactly those sessions;
\* remove_session of an id that is not registered changes nothing.  Stated
\* step by step: nothing is registered at first, create_session registers
\* exactly the new session under an id that returned None before,
\* remove_session of a registered id unregisters exactly that one, and no step
\* changes what get_session returns for any other id.
SessionIds == {SessionId(n) : n \in 0..(MaxIssued + 2)}

C17_RegistryMatchesCreatedNotRemoved ==
    /\ [](/\ Len(issued) = 0 => \A id \in SessionIds : get_session(mgr, id) = None
          /\ \A id \in SessionIds :
                /\ get_session(mgr, id) # None
                   => \E i \in 1..Len(issued) :
                         /\ issued[i].id = id
                         /\ get_session(mgr, id) = Some(issued[i].websocket)
                         /\ get_session(remove_session(mgr, id), id) = None
                         /\ \A o \in SessionIds \ {id} :
                               get_session(remove_session(mgr, id), o) = get_session(mgr, o)
                /\ get_session(mgr, id) = None => remove_session(mgr, id) = mgr
          /\ get_all_sessions(mgr) =
                {[session_id |-> issued[i].id, websocket |-> issued[i].websocket] :
                    i \in {j \in 1..Len(issued) : get_session(mgr, issued[j].id) # None}}
          /\ get_session_count(mgr) =
                Cardinality({id \in SessionIds : get_session(mgr, id) # None}))
    /\ [][IF issued' # issued
          THEN LET e == issued'[Len(issued')]
               IN  /\ issued' = Append(issued, e)
                   /\ get_session(mgr, e.id) = None
                   /\ get_session(mgr', e.id) = Some(e.websocket)
                   /\ \A o \in SessionIds \ {e.id} : get_session(mgr', o) = get_session(mgr, o)
          ELSE \/ mgr' = mgr
               \/ \E id \in SessionIds :
                     /\ get_session(mgr, id) # None
                     /\ mgr' = remove_session(mgr, id)]_vars

\* a session was created and removed, a later one is still registered, and the
\* removed id is looked up and removed again
C17_Witness ==
    /\ Len(issued) >= 3
    /\ get_session_count(mgr) = 1
    /\ \E i, j \in 1..Len(issued) :
          /\ i < j
          /\ get_session(mgr, issued[i].id) = None
          /\ remove_session(mgr, issued[i].id) = mgr
          /\ get_session(mgr, issued[j].id) = Some(issued[j].websocket)
          /\ issued[i].websocket = issued[j].websocket

(***************************************************************************)
(* Claims about the message loop (Spec, SpecFair).                         *)
(***************************************************************************)
\* the peer is gone, or receive_json has raised
TransportFailed(K) == K.transport = "closed" \/ K.recv_failed

\* the message being handled is an audio message whose data b64decode rejects
UndecodableAudio(K) ==
    /\ parse_client_message(K.cur.msg).kind = "audio"
    /\ b64decode(K.cur.msg.data[1]).raised

ErrorsSent(out) == Cardinality({i \in 1..Len(out) : out[i].type = "error"})

\* C8 as the specification states it: the Error message of an audio message
\* whose data is not valid base64 carries the code AudioDecodeError.
C8_Original_AudioDecodeError ==
    \A c \in DOMAIN conn :
        (UndecodableAudio(conn[c]) /\ ~TransportFailed(conn[c]))
            => conn[c].cur.out = <<create_error_message("AudioDecodeError")>>

\* C8: an audio message whose data b64decode rejects is answered by one Error
\* message with the code audio_processing_error, the session stays registered
\* and goes back to receiving, and the audio buffer is as it was.
C8_UndecodableAudioReported ==
    \A c \in DOMAIN conn :
        LET K == conn[c]
        IN  UndecodableAudio(K) =>
              /\ K.session.audio_buffer = K.cur.buf0
              /\ ~TransportFailed(K) =>
                    /\ K.cur.out = <<create_error_message("audio_processing_error")>>
                    /\ Registered(K)
                    /\ K.pc \in {<<108, 297>>, <<289>>}

C8_Witness ==
    \E c \in DOMAIN conn :
        LET K == conn[c]
        IN  /\ UndecodableAudio(K)
            /\ K.transport = "open" /\ K.pc = <<289>>
            /\ K.cur.buf0 # <<>> /\ K.session.audio_buffer = K.cur.buf0
            /\ K.cur.out = <<create_error_message("audio_processing_error")>>

\* C9: a message whose parsing or processing raises (unknown type, invalid
\* fields, a non-object value, audio that cannot be decoded or framed) gets
\* exactly one Error message, after which the session is still registered and
\* the loop is back at receive; the handler ends only when the transport is
\* closed or receive_json itself has raised.
C9_OneErrorThenLoopContinues ==
    \A c \in DOMAIN conn :
        LET K == conn[c]
        IN  /\ (K.cur.raised # "none" /\ ~TransportFailed(K)) =>
                  /\ ErrorsSent(K.cur.out) = 1
                  /\ Len(K.cur.out) = 1
                  /\ Registered(K)
                  /\ K.pc \in {<<108, 297>>, <<309>>, <<318>>, <<289>>}
            /\ K.pc = <<>> => TransportFailed(K)

C9_Witness ==
    \E c \in DOMAIN conn :
        LET K == conn[c]
        IN  /\ K.transport = "open" /\ K.pc = <<289>>
            /\ K.received = 2 /\ K.bad = 1
            /\ K.cur.raised = "none" /\ K.cur.out # <<>>
            /\ ErrorsSent(K.sent) = 1
            /\ Registered(K)

\* C10: once the transport of a connection has failed (the peer is gone, or
\* receive_json raised), the handler takes in no further inbound message and
\* sends nothing more, runs only its exception handlers, and in the end has
\* returned with the session removed from the registrar; a handler that has
\* returned has left no session registered.
C10_TransportFailureRemovesSession ==
    /\ \A c \in Clients :
          TransportFailed(conn[c]) ~> (conn[c].pc = <<>> /\ ~Registered(conn[c]))
    /\ [][\A c \in Clients :
             TransportFailed(conn[c]) =>
                /\ conn'[c].received = conn[c].received
                /\ conn'[c].sent = conn[c].sent
                /\ conn'[c].session.audio_buffer = conn[c].session.audio_buffer
                /\ Stepped(c) => (conn'[c].pc = <<>> \/ Head(conn'[c].pc) \in {108, 318})]_vars
    /\ [](\A c \in Clients : conn[c].pc = <<>> => ~Registered(conn[c]))

C10_Witness ==
    \E c \in DOMAIN conn :
        LET K == conn[c]
        IN  /\ K.pc = <<>> /\ K.transport = "closed"
            /\ K.session.session_id # None /\ ~Registered(K)
            /\ K.session.audio_buffer # <<>>
            /\ \A i \in 1..Len(K.sent) : K.sent[i].type # "transcript"

(***************************************************************************)
(* Claims about control messages and ordering (Spec).                      *)
(***************************************************************************)
\* the step in which the handler takes data from receive_json
Receives(c, data) ==
    /\ conn[c].pc = <<289>>
    /\ conn'[c].received = conn[c].received + 1
    /\ conn'[c].cur.msg = data

\* C11: handling Control{action=start_listening} sets is_listening, resets the
\* detector (state silence, both counters 0) whatever it held, leaves
\* is_speaking, tts_sequence and the audio buffer as they were, and sends one
\* message, Status(listening), before the handler is back at receive.
C11_StartListening ==
    [][\A c \in Clients :
          /\ Receives(c, ControlJson("start_listening"))
             => /\ conn'[c].session =
                      [conn[c].session EXCEPT !.is_listening = TRUE,
                                              !.vad.state = "silence",
                                              !.vad.speech_frames = 0,
                                              !.vad.silence_frames = 0,
                                              !.vad.energy_history = <<>>]
                /\ Sends(c, create_status_message("listening"))
                /\ conn'[c].pc = <<158, 299>>
          /\ ( /\ Stepped(c)
               /\ conn[c].pc = <<158, 299>>
               /\ conn[c].transport = "open" )
             => /\ conn'[c].pc = <<289>>
                /\ conn'[c].sent = conn[c].sent
                /\ conn'[c].session = conn[c].session]_vars

C11_Witness ==
    \E c \in Clients :
        LET K == conn[c]
        IN  /\ K.pc = <<289>> /\ K.transport = "open"
            /\ K.cur.msg = ControlJson("start_listening")
            /\ K.cur.out = <<create_status_message("listening")>>
            /\ K.session.audio_buffer = b64decode(B64Loud).bytes
            /\ K.session.is_listening
            /\ K.session.vad = VoiceActivityDetector(DefaultVADConfig)

\* C12: a handler takes the next inbound message only from receive_json at
\* line 289, with nothing of the message before it left to do (no event of
\* its loop pending), so a send that suspends never lets the next message in;
\* while a message is being handled it stays the one being handled, and what
\* the handler sends goes out behind everything sent for the messages before.
C12_MessagesInArrivalOrder ==
    [][\A c \in Clients :
          LET K  == conn[c]
              K2 == conn'[c]
          IN  /\ K2.received # K.received
                 => /\ K.pc = <<289>> /\ K.vad_events = <<>>
                    /\ K2.received = K.received + 1
                    /\ K2.cur.out = SubSeq(K2.sent, Len(K.sent) + 1, Len(K2.sent))
              /\ (K.pc # <<289>> /\ K.pc # <<>>)
                 => /\ K2.cur.msg = K.cur.msg
                    /\ K2.received = K.received
              /\ (K2.received = K.received /\ K2.cur.out # K.cur.out)
                 => /\ Len(K2.sent) = Len(K.sent) + 1
                    /\ K2.cur.out = Append(K.cur.out, K2.sent[Len(K2.sent)])]_vars

C12_Witness ==
    \E c \in Clients :
        LET K == conn[c]
        IN  /\ K.received = 2 /\ K.transport = "open"
            /\ K.pc # <<289>> /\ K.pc # <<>>
            /\ Len(K.cur.out) >= 2
            /\ Len(K.sent) >= Len(K.cur.out) + 3
            /\ K.vad_events # <<>>

\* the handler is suspended in a send_message of handle_audio_input,
\* handle_control or handle_barge_in
InHandlerSend(K) == K.pc # <<>> /\ Head(K.pc) \notin {0, 276, 284, 289, 309, 318}

SessionFields(session) ==
    <<session.vad, session.audio_buffer, session.is_listening, session.is_speaking,
      session.tts_sequence>>

\* C13 as the specification states it: while a message handler is suspended in
\* send_message nothing else changes the session's detector, buffer or flags,
\* and a handler step that clears a TTS turn has sent a BargeIn message for
\* that turn while handling the same inbound message.
C13_Original_SingleWriter ==
    [][\A c \in Clients :
          LET K  == conn[c]
              K2 == conn'[c]
          IN  /\ (InHandlerSend(K) /\ ~Stepped(c))
                 => SessionFields(K2.session) = SessionFields(K.session)
              /\ ( /\ Stepped(c) /\ InHandlerSend(K)
                   /\ K.session.tts_sequence # None
                   /\ K2.session.tts_sequence = None )
                 => \E i \in 1..Len(K.cur.out) :
                       K.cur.out[i] =
                           create_barge_in_message(K.session.tts_sequence[1])]_vars

\* C14: whenever tts_sequence is set, the last playback call of the
\* orchestrator on the session was start_tts_playback with that value; a
\* step of the handler (an inbound message, or a resumption of its handling)
\* leaves tts_sequence as it is or unsets it, and the only step that sets it
\* is a start_tts_playback call.
C14_TtsSequenceSetOnlyByStart ==
    /\ [](\A c \in Clients :
             LET K == conn[c]
             IN  K.session.tts_sequence # None
                   => /\ K.calls # <<>>
                      /\ K.calls[Len(K.calls)].op = "start_tts_playback"
                      /\ K.session.tts_sequence = Some(K.calls[Len(K.calls)].arg))
    /\ [][\A c \in Clients :
             LET K  == conn[c]
                 K2 == conn'[c]
             IN  /\ (Stepped(c) \/ K2.received # K.received)
                    => K2.session.tts_sequence \in {K.session.tts_sequence, None}
                 /\ (K2.session.tts_sequence # None
                        /\ K2.session.tts_sequence # K.session.tts_sequence)
                    => /\ K2.calls = Append(K.calls, K2.calls[Len(K2.calls)])
                       /\ K2.calls[Len(K2.calls)].op = "start_tts_playback"]_vars

C14_Witness ==
    \E c \in Clients :
        LET K == conn[c]
        IN  /\ K.session.tts_sequence = Some(2)
            /\ K.received = 2 /\ K.pc = <<289>>
            /\ Len(K.calls) = 2
            /\ K.calls[1].op = "start_tts_playback" /\ K.calls[1].arg = 1
            /\ \E i \in 1..Len(K.sent) : K.sent[i].type = "barge_in"

C19_RegistrarSerialized ==
    /\ [](LET Finished == {i \in 1..Len(issued) : issued[i].id \notin conn.loop.removed}
          IN  /\ \A i \in 1..Len(issued) : issued[i].id = SessionId(i)
              /\ DOMAIN mgr.sessions = {issued[i].id : i \in Finished}
              /\ mgr.session_counter = Len(issued) + (IF conn.loop.pc = 236 THEN 1 ELSE 0))
    /\ [][LET Finished == {i \in 1..Len(issued) : issued[i].id \notin conn.loop.removed}
              got == conn'.loop.got[1]
          IN  /\ (conn.mon.pc = 0 /\ conn'.mon.pc = 111)
                 => conn'.mon.sessions =
                       {[session_id |-> issued[i].id, websocket |-> issued[i].websocket] :
                           i \in Finished}
              /\ (conn.mon.pc = 111 /\ conn'.mon.pc = 0)
                 => /\ conn'.mon.response # None
                    /\ conn'.mon.response[1].sessions = conn.mon.sessions
                    /\ conn'.mon.response[1].count = Cardinality(Finished)
              /\ conn'.loop.got # conn.loop.got
                 => got.session =
                       IF \E j \in Finished : issued[j].id = got.session_id
                       THEN Some(mgr.sessions[got.session_id])
                       ELSE None]_vars

\* the worker thread has read the list and not yet the count while the event
\* loop's thread stands between the increment (line 235) and the store (line
\* 238) of a create_session, after an earlier session was removed
C19_Witness ==
    /\ conn.mon.pc = 111
    /\ conn.loop.pc = 236
    /\ mgr.session_counter = Len(issued) + 1
    /\ conn.loop.removed # {}
    /\ SessionId(mgr.session_counter) \notin DOMAIN mgr.sessions
    /\ conn.mon.response # None
    /\ conn.mon.response[1].count # Cardinality(conn.mon.response[1].sessions)

(***************************************************************************)
(* Claims about parse_client_message (Spec).                               *)
(***************************************************************************)
\* the JSON objects a client can send: every combination of present and
\* absent keys, with a known or unknown type and action
ClientObjects ==
    {JsonObject(type, data, timestamp, sequence, action) :
        type \in {None, Some("audio"), Some("control"), Some("ping")},
        data \in {None, Some(B64Loud)},
        timestamp \in {None, Some(0)},
        sequence \in {None, Some(0)},
        action \in {None, Some("mute")} \cup {Some(a) : a \in ControlActions}}

C21_Original_DecodedLengthInRange ==
    [][\A c \in Clients : \A data \in InboundMessages :
          LET message == parse_client_message(data)
              decoded == b64decode(message.data)
          IN  ( /\ Receives(c, data)
                /\ message.raised = "none" /\ message.kind = "audio"
                /\ ~decoded.raised
                /\ Len(decoded.bytes) = 0 \/ Len(decoded.bytes) > 1024 * 1024 )
              => conn'[c].cur.raised # "none"]_vars

\* C24 as the specification states it: the handler sends Status(processing)
\* for a speech_end event only after it has set is_listening to false, sent
\* the final Transcript over the whole buffer for that event and cleared the
\* buffer: the two messages before Status(processing) are VadEvent(speech_end)
\* and the final Transcript, and the buffer is empty when it is sent.
C24_Original_FinalTranscriptBeforeProcessing ==
    [][\A c \in Clients :
          LET out == conn'[c].cur.out
              n   == Len(out)
          IN  out = Append(conn[c].cur.out, create_status_message("processing"))
              => /\ n >= 3
                 /\ out[n - 2] = create_vad_event("speech_end")
                 /\ out[n - 1] = create_transcript_message(Len(conn[c].session.audio_buffer), TRUE)
                 /\ out[n - 1].nbytes > 0
                 /\ conn'[c].session.audio_buffer = <<>>
                 /\ ~conn'[c].session.is_listening]_vars

\* C24: for each speech_end event the handler sets is_listening to false and,
\* when the buffer is not empty, sends one final Transcript over the whole
\* buffer and clears it; when the buffer is empty (an earlier speech_end of the
\* same chunk has cleared it) it sends no Transcript.  Then it sends
\* Status(processing): the buffer is empty when Status(processing) is sent, and
\* the message before it is the final Transcript of this event if there is
\* one and VadEvent(speech_end) otherwise.
C24_FinalTranscriptUnlessBufferEmpty ==
    [][\A c \in Clients :
          LET out == conn'[c].cur.out
              n   == Len(out)
              buffer == conn[c].session.audio_buffer
          IN  out = Append(conn[c].cur.out, create_status_message("processing"))
              => /\ conn'[c].session.audio_buffer = <<>>
                 /\ ~conn'[c].session.is_listening
                 /\ IF buffer # <<>>
                    THEN /\ n >= 3
                         /\ out[n - 2] = create_vad_event("speech_end")
                         /\ out[n - 1] = create_transcript_message(Len(buffer), TRUE)
                    ELSE /\ n >= 2
                         /\ out[n - 1] = create_vad_event("speech_end")]_vars

\* one chunk has given two speech_end events: the first with a final
\* Transcript, the second with none
C24_Witness ==
    \E c \in Clients :
        LET out == conn[c].cur.out
        IN  \E i, j \in 1..Len(out) :
               /\ i + 2 < j /\ j < Len(out)
               /\ out[i] = create_vad_event("speech_end")
               /\ out[i + 1].type = "transcript" /\ out[i + 1].is_final
               /\ out[i + 2] = create_status_message("processing")
               /\ out[j] = create_vad_event("speech_end")
               /\ out[j + 1] = create_status_message("processing")
               /\ conn[c].session.audio_buffer = <<>>

\* C25 as the specification states it: when Control{action=stop_listening} is
\* handled while the detector is in Speech, the first message sent is the
\* final Transcript.
C25_Original_StopListeningFlushes ==
    [][\A c \in Clients :
          (Receives(c, ControlJson("stop_listening")) /\ conn[c].session.vad.state = "speech")
          => /\ conn'[c].cur.out # <<>>
             /\ conn'[c].cur.out[1].type = "transcript"
             /\ conn'[c].cur.out[1].is_final]_vars

\* C25: handling Control{action=stop_listening} sets is_listening to false; if
\* the detector is in Speech and the buffer is not empty it sends a final
\* Transcript over the buffer and clears the buffer; it then resets the
\* detector and sends Status(connected) as the last message.  The messages
\* sent are the final Transcript and Status(connected) when the detector was in
\* Speech with a buffer that was not empty, and Status(connected) alone
\* otherwise; nothing else of the session changes.
C25_StopListening ==
    [][\A c \in Clients :
          LET K  == conn[c]
              K2 == conn'[c]
              fresh == [K.session.vad EXCEPT !.state = "silence", !.speech_frames = 0,
                                             !.silence_frames = 0, !.energy_history = <<>>]
          IN  /\ Receives(c, ControlJson("stop_listening"))
                 => IF K.session.vad.state = "speech" /\ K.session.audio_buffer # <<>>
                    THEN /\ K2.session = [K.session EXCEPT !.is_listening = FALSE]
                         /\ K2.cur.out = <<create_transcript_message(
                                               Len(K.session.audio_buffer), TRUE)>>
                         /\ K2.pc = <<144, 164, 299>>
                    ELSE /\ K2.session = [K.session EXCEPT !.is_listening = FALSE,
                                                           !.vad = fresh]
                         /\ K2.cur.out = <<create_status_message("connected")>>
                         /\ K2.pc = <<167, 299>>
              /\ (Stepped(c) /\ K.pc = <<144, 164, 299>> /\ K.transport = "open")
                 => /\ K2.session = [K.session EXCEPT !.audio_buffer = <<>>, !.vad = fresh]
                    /\ K2.cur.out = Append(K.cur.out, create_status_message("connected"))
                    /\ K2.pc = <<167, 299>>
              /\ (Stepped(c) /\ K.pc = <<167, 299>> /\ K.transport = "open")
                 => /\ K2.session = K.session
                    /\ K2.cur.out = K.cur.out
                    /\ K2.pc = <<289>>]_vars

\* stop_listening was handled after a chunk that left the detector in Speech
\* and the buffer empty: Status(connected) is all that was sent
C25_Witness ==
    \E c \in Clients :
        LET K == conn[c]
            n == Len(K.sent)
        IN  /\ K.pc = <<289>> /\ K.transport = "open" /\ K.received = 2
            /\ K.cur.msg = ControlJson("stop_listening")
            /\ K.cur.buf0 = <<>>
            /\ K.cur.out = <<create_status_message("connected")>>
            /\ n >= 3
            /\ K.sent[n - 2] = create_vad_event("speech_start")
            /\ K.sent[n - 1] = create_status_message("listening")
            /\ K.session.vad.state = "silence"
            /\ ~K.session.is_listening

\* C26: a handle_audio_input call that completes sends a partial Transcript
\* exactly when, after the events of the call have been handled, the detector
\* is in Speech and the buffer is longer than the threshold; it sends at most
\* one, as the last message of the call, over the buffer as it then is, and
\* leaves the buffer as it is: the buffer at the end of the call is the buffer
\* at its start followed by the call's payload unless the call sent a final
\* Transcript.  A later call sends one again while the condition holds.
C26_PartialTranscript ==
    \A c \in Clients :
        LET K        == conn[c]
            out      == K.cur.out
            partials == {i \in 1..Len(out) : out[i].type = "transcript" /\ ~out[i].is_final}
            finals   == {i \in 1..Len(out) : out[i].type = "transcript" /\ out[i].is_final}
            message  == parse_client_message(K.cur.msg)
        IN  ( /\ K.pc = <<289>> /\ K.transport = "open" /\ K.received > 0
              /\ message.raised = "none" /\ message.kind = "audio"
              /\ K.cur.raised = "none" )
            => /\ Cardinality(partials) <= 1
               /\ partials # {}
                  <=> /\ K.session.vad.state = "speech"
                      /\ Len(K.session.audio_buffer) > PartialBytes
               /\ partials # {}
                  => /\ partials = {Len(out)}
                     /\ out[Len(out)] =
                           create_transcript_message(Len(K.session.audio_buffer), FALSE)
               /\ finals = {}
                  => K.session.audio_buffer = K.cur.buf0 \o b64decode(message.data).bytes

\* two calls in a row have each sent a partial Transcript, the second over the
\* longer buffer
C26_Witness ==
    \E c \in Clients :
        LET K == conn[c]
            n == Len(K.sent)
        IN  /\ K.pc = <<289>> /\ K.transport = "open" /\ K.received = 2
            /\ K.cur.msg = AudioJson(B64Loud)
            /\ K.cur.out = <<create_transcript_message(Len(K.session.audio_buffer), FALSE)>>
            /\ n >= 2
            /\ K.sent[n - 1] = create_transcript_message(Len(K.cur.buf0), FALSE)
            /\ Len(K.cur.buf0) < Len(K.session.audio_buffer)

\* C27: handling Control{action=cancel_tts} while is_speaking holds and
\* tts_sequence = S sends BargeIn(S), then sets is_speaking to false, unsets
\* tts_sequence, sets is_listening and sends Status(listening), and sends
\* nothing more; while no turn is active it sends nothing and leaves the
\* session as it was.
C27_CancelTts ==
    [][\A c \in Clients :
          LET K  == conn[c]
              K2 == conn'[c]
          IN  /\ Receives(c, ControlJson("cancel_tts"))
                 => /\ K2.session = K.session
                    /\ IF K.session.is_speaking /\ K.session.tts_sequence # None
                       THEN /\ K2.cur.out = <<[ServerMessage("barge_in") EXCEPT
                                   !.cancelled_sequence = K.session.tts_sequence[1]]>>
                            /\ K2.sent = Append(K.sent, K2.cur.out[1])
                            /\ K2.pc = <<182, 172, 299>>
                       ELSE /\ K2.cur.out = <<>>
                            /\ K2.sent = K.sent
                            /\ K2.pc = <<289>>
              /\ (Stepped(c) /\ K.pc = <<182, 172, 299>> /\ K.transport = "open")
                 => /\ K2.session = [K.session EXCEPT !.is_speaking = FALSE,
                                                      !.tts_sequence = None,
                                                      !.is_listening = TRUE]
                    /\ K2.cur.out = Append(K.cur.out, create_status_message("listening"))
                    /\ K2.pc = <<191, 172, 299>>
              /\ (Stepped(c) /\ K.pc = <<191, 172, 299>> /\ K.transport = "open")
                 => /\ K2.session = K.session
                    /\ K2.sent = K.sent
                    /\ K2.pc = <<289>>]_vars

\* a cancel_tts was handled for turn 2 while the session was not listening, and
\* an earlier cancel_tts found no turn to cancel
C27_Witness ==
    \E c \in Clients :
        LET K == conn[c]
        IN  /\ K.pc = <<289>> /\ K.transport = "open" /\ K.received = 2
            /\ K.cur.msg = ControlJson("cancel_tts")
            /\ K.cur.out = <<create_barge_in_message(2), create_status_message("listening")>>
            /\ K.session.is_listening /\ ~K.session.is_speaking
            /\ K.session.tts_sequence = None
            /\ K.sent = <<create_status_message("connected"),
                          create_status_message("speaking")>> \o K.cur.out

\* C28: a BargeIn message goes out only in the step that handles a
\* speech_start event of the event loop (line 83, after the event's VadEvent
\* message) or in the step that receives Control{action=cancel_tts} (line
\* 172), and only for an active turn; no other step of the handler and no call
\* of start_tts_playback or end_tts_playback sends one.  The step that
\* receives an audio message classifies the whole chunk and sends no BargeIn;
\* the detector is not touched again while the events are handled.
C28_BargeInOnlyFromSpeechStartOrCancel ==
    [][\A c \in Clients :
          LET K  == conn[c]
              K2 == conn'[c]
              emitted == {i \in (Len(K.sent) + 1)..Len(K2.sent) :
                              K2.sent[i].type = "barge_in"}
              message == parse_client_message(K2.cur.msg)
              audio_bytes == b64decode(message.data)
              r == process_chunk(K.session.vad, audio_bytes.bytes, "pcm16")
          IN  /\ emitted # {}
                 => /\ K.session.is_speaking /\ K.session.tts_sequence # None
                    /\ K2.sent = Append(K.sent,
                                        create_barge_in_message(K.session.tts_sequence[1]))
                    /\ K2.session.vad = K.session.vad
                    /\ \/ /\ K.pc = <<77, 297>> /\ K2.pc = <<182, 83, 297>>
                          /\ K2.received = K.received
                          /\ K.vad_events # <<>> /\ Head(K.vad_events) = "speech_start"
                          /\ K2.vad_events = K.vad_events
                       \/ /\ Receives(c, ControlJson("cancel_tts"))
                          /\ K2.pc = <<182, 172, 299>>
              /\ ( /\ K.pc = <<289>> /\ K2.received = K.received + 1
                   /\ message.raised = "none" /\ message.kind = "audio"
                   /\ ~audio_bytes.raised /\ ~r.raised )
                 => /\ K2.session.vad = r.vad
                    /\ emitted = {}
                    /\ r.events # <<>> => (K2.vad_events = r.events /\ K2.pc = <<77, 297>>)
              /\ (K.pc # <<>> /\ K.pc[Len(K.pc)] = 297 /\ K2.received = K.received)
                 => K2.session.vad = K.session.vad]_vars

\* turn 1 was cancelled by cancel_tts, and turn 2 by the speech_start event of
\* the next chunk, whose handler is suspended in the BargeIn send
C28_Witness ==
    \E c \in Clients :
        LET K == conn[c]
        IN  /\ K.pc = <<182, 83, 297>> /\ K.transport = "open" /\ K.received = 2
            /\ K.cur.out = <<create_vad_event("speech_start"), create_barge_in_message(2)>>
            /\ K.vad_events # <<>> /\ Head(K.vad_events) = "speech_start"
            /\ is_speaking(K.session.vad)
            /\ \E i \in 1..Len(K.sent) : K.sent[i] = create_barge_in_message(1)

\* C29: whenever the handler is back at receive, the audio buffer is empty if
\* a final Transcript went out for the message just handled, and otherwise is
\* the buffer as it was when the message arrived followed by the message's
\* decoded payload (nothing for a message that is no AudioInput or whose data
\* does not decode); a new session starts with an empty buffer, and no step
\* outside the handling of a message changes it.  The buffer gets shorter
\* only in the step that follows the send of a final Transcript, which
\* empties it.
C29_BufferIsAudioSinceFinalTranscript ==
    /\ [](\A c \in Clients :
            LET K == conn[c]
                message == parse_client_message(K.cur.msg)
                audio_bytes == IF message.raised = "none" /\ message.kind = "audio"
                                  /\ ~b64decode(message.data).raised
                               THEN b64decode(message.data).bytes ELSE <<>>
                finals == {i \in 1..Len(K.cur.out) :
                             K.cur.out[i].type = "transcript" /\ K.cur.out[i].is_final}
            IN  (K.pc = <<289>> /\ K.received > 0)
                => K.session.audio_buffer =
                     IF finals # {} THEN <<>> ELSE K.cur.buf0 \o audio_bytes)
    /\ [][\A c \in Clients :
            LET K  == conn[c]
                K2 == conn'[c]
                out == K.cur.out
            IN  /\ K2.received = K.received + 1
                   => K2.cur.buf0 = K.session.audio_buffer
                /\ (K.pc = <<>> /\ K2.pc # <<>>) => K2.session.audio_buffer = <<>>
                /\ (K.pc = <<289>> /\ K2.received = K.received)
                   => K2.session.audio_buffer = K.session.audio_buffer
                /\ (K.pc # <<>> /\ Len(K2.session.audio_buffer) < Len(K.session.audio_buffer))
                   => /\ Head(K.pc) = 144 /\ K.transport = "open"
                      /\ out # <<>> /\ out[Len(out)] =
                            create_transcript_message(Len(K.session.audio_buffer), TRUE)
                      /\ K2.session.audio_buffer = <<>>]_vars

\* a payload of odd length and a loud chunk after it are both in the buffer,
\* in that order, after a partial Transcript went out
C29_Witness ==
    \E c \in Clients :
        LET K == conn[c]
        IN  /\ K.pc = <<289>> /\ K.transport = "open" /\ K.received = 2
            /\ K.cur.msg = AudioJson(B64Loud)
            /\ K.cur.buf0 = b64decode(B64Odd).bytes /\ K.cur.buf0 # <<>>
            /\ K.session.audio_buffer = b64decode(B64Odd).bytes \o b64decode(B64Loud).bytes
            /\ \E i \in 1..Len(K.cur.out) :
                  K.cur.out[i].type = "transcript" /\ ~K.cur.out[i].is_final

\* C30: when the event loop of handle_audio_input handles a speech_start event
\* (its VadEvent message is out), is_listening becomes true; with a turn
\* active the handler sends BargeIn, then clears the turn and sends
\* Status(listening), and only then goes on in the loop; in both cases the
\* next message is the Status(listening) of line 87, and it is the last
\* message for the event: the step after it takes the event off the loop.
\* With no turn active the step sends no BargeIn and leaves is_speaking and
\* tts_sequence alone.  On a transport that stays open, every speech_start
\* event that is handled gets to its Status(listening).
C30_SpeechStartHandling ==
    /\ [][\A c \in Clients :
            LET K  == conn[c]
                K2 == conn'[c]
                event == IF K.vad_events = <<>> THEN "" ELSE Head(K.vad_events)
                go == Stepped(c) /\ K.transport = "open" /\ event = "speech_start"
                listening == create_status_message("listening")
            IN  /\ (go /\ K.pc = <<77, 297>>)
                   => /\ K2.session.is_listening
                      /\ K2.session.is_speaking = K.session.is_speaking
                      /\ K2.session.tts_sequence = K.session.tts_sequence
                      /\ K2.vad_events = K.vad_events
                      /\ IF K.session.is_speaking /\ K.session.tts_sequence # None
                         THEN /\ K2.cur.out = Append(K.cur.out,
                                    create_barge_in_message(K.session.tts_sequence[1]))
                              /\ K2.pc = <<182, 83, 297>>
                         ELSE /\ K2.cur.out = Append(K.cur.out, listening)
                              /\ K2.pc = <<87, 297>>
                /\ (go /\ K.pc = <<182, 83, 297>>)
                   => /\ K2.session = [K.session EXCEPT !.is_speaking = FALSE,
                                                        !.tts_sequence = None,
                                                        !.is_listening = TRUE]
                      /\ K2.cur.out = Append(K.cur.out, listening)
                      /\ K2.vad_events = K.vad_events
                      /\ K2.pc = <<191, 83, 297>>
                /\ (go /\ K.pc = <<191, 83, 297>>)
                   => /\ K2.session = K.session
                      /\ K2.cur.out = Append(K.cur.out, listening)
                      /\ K2.vad_events = K.vad_events
                      /\ K2.pc = <<87, 297>>
                /\ (go /\ K.pc = <<87, 297>>)
                   => /\ K.cur.out[Len(K.cur.out)] = listening
                      /\ K2.session = K.session
                      /\ K2.vad_events = Tail(K.vad_events)]_vars
    /\ \A c \in Clients :
          ( /\ conn[c].pc = <<77, 297>>
            /\ conn[c].vad_events # <<>> /\ Head(conn[c].vad_events) = "speech_start" )
          ~> \/ conn[c].transport = "closed"
             \/ /\ conn[c].pc = <<87, 297>>
                /\ conn[c].cur.out[Len(conn[c].cur.out)] = create_status_message("listening")
                /\ Head(conn[c].vad_events) = "speech_start"

\* a speech_start event cancelled turn 1 and its Status(listening) is out
C30_Witness ==
    \E c \in Clients :
        LET K == conn[c]
        IN  /\ K.pc = <<87, 297>> /\ K.transport = "open"
            /\ K.cur.out = <<create_vad_event("speech_start"), create_barge_in_message(1),
                             create_status_message("listening"),
                             create_status_message("listening")>>
            /\ K.session.is_listening /\ ~K.session.is_speaking
            /\ K.session.tts_sequence = None

\* C31: every BargeIn message sent on a connection belongs to a turn: the last
\* playback call made before it was sent is a start_tts_playback(S), not an
\* end_tts_playback, and the message carries that S; no two BargeIn messages
\* belong to the same start_tts_playback call.
C31_OneBargeInPerTurn ==
    \A c \in Clients :
        LET K == conn[c]
            barge == {i \in 1..Len(K.sent) : K.sent[i].type = "barge_in"}
            before(i) == {k \in 1..Len(K.calls) : K.calls[k].sent0 < i}
            turn(i) == CHOOSE k \in before(i) : \A m \in before(i) : m <= k
        IN  \A i \in barge :
                /\ before(i) # {}
                /\ K.calls[turn(i)].op = "start_tts_playback"
                /\ K.calls[turn(i)].arg = K.sent[i].cancelled_sequence
                /\ \A j \in barge : j # i => turn(j) # turn(i)

\* turn 1 was cancelled by cancel_tts, and a second cancel_tts after it sent
\* nothing
C31_Witness ==
    \E c \in Clients :
        LET K == conn[c]
        IN  /\ K.pc = <<289>> /\ K.transport = "open" /\ K.received = 2
            /\ K.cur.msg = ControlJson("cancel_tts") /\ K.cur.out = <<>>
            /\ Len(K.calls) = 1 /\ K.calls[1].op = "start_tts_playback"
            /\ K.sent = <<create_status_message("connected"),
                          create_status_message("speaking"),
                          create_barge_in_message(K.calls[1].arg),
                          create_status_message("listening")>>

\* C32: in every state of a session, between any two steps of its handler and
\* of the playback calls, is_speaking holds exactly when tts_sequence is set.
C32_SpeakingIffSequenceSet ==
    \A c \in Clients :
        conn[c].session.is_speaking <=> (conn[c].session.tts_sequence # None)

\* turn 2 was started while the barge-in of turn 1 is suspended in its send,
\* and both fields are set; a state after the barge-in went on has both clear
C32_Witness ==
    \E c \in Clients :
        LET K == conn[c]
        IN  /\ K.pc # <<>> /\ Head(K.pc) = 182 /\ K.transport = "open"
            /\ Len(K.sent) > 2
            /\ K.sent[Len(K.sent)] = create_status_message("speaking")
            /\ K.sent[Len(K.sent) - 1] = create_barge_in_message(1)
            /\ K.session.is_speaking /\ K.session.tts_sequence = Some(2)
            /\ ResetTtsState(K.session).tts_sequence = None
            /\ ~ResetTtsState(K.session).is_speaking

\* C35: while an AudioInput message is handled on an open transport, the
\* receive step sets the pending events to the list process_chunk returned and
\* sends the VadEvent of the first; every later step either keeps the head
\* event and sends no VadEvent, or takes the head off and sends exactly the
\* VadEvent of the next event, if there is one; so each event gets one
\* VadEvent, in the detector's order.  Every BargeIn, final Transcript and
\* Status message of the call comes after the VadEvent of the event that
\* caused it, with no other VadEvent between: speech_start for BargeIn and
\* Status(listening), speech_end for the Transcript and Status(processing).
C35_VadEventFirst ==
    /\ [](\A c \in Clients :
            LET K == conn[c]
                out == K.cur.out
                message == parse_client_message(K.cur.msg)
                cause(m) == CASE m.type = "barge_in" -> "speech_start"
                              [] m.type = "status" /\ m.status = "listening" -> "speech_start"
                              [] m.type = "status" /\ m.status = "processing" -> "speech_end"
                              [] m.type = "transcript" /\ m.is_final -> "speech_end"
                              [] OTHER -> ""
            IN  (K.received > 0 /\ message.raised = "none" /\ message.kind = "audio")
                => \A i \in 1..Len(out) :
                      cause(out[i]) # ""
                      => \E j \in 1..(i - 1) :
                            /\ out[j] = create_vad_event(cause(out[i]))
                            /\ \A k \in (j + 1)..i : out[k].type # "vad")
    /\ [][\A c \in Clients :
            LET K  == conn[c]
                K2 == conn'[c]
                message == parse_client_message(K2.cur.msg)
                audio_bytes == b64decode(message.data)
                r == process_chunk(K.session.vad, audio_bytes.bytes, "pcm16")
                vads(out) == SelectSeq(out, LAMBDA m : m.type = "vad")
            IN  /\ ( /\ K.pc = <<289>> /\ K2.received = K.received + 1
                     /\ message.raised = "none" /\ message.kind = "audio"
                     /\ ~audio_bytes.raised /\ ~r.raised )
                   => /\ K2.vad_events = r.events
                      /\ vads(K2.cur.out) =
                            IF r.events = <<>> THEN <<>>
                            ELSE <<create_vad_event(Head(r.events))>>
                /\ ( /\ Stepped(c) /\ K.transport = "open" /\ K.cur.raised = "none"
                     /\ K.pc # <<>> /\ K.pc[Len(K.pc)] = 297 )
                   => IF K2.vad_events = K.vad_events
                      THEN vads(K2.cur.out) = vads(K.cur.out)
                      ELSE /\ K.vad_events # <<>>
                           /\ K2.vad_events = Tail(K.vad_events)
                           /\ IF K2.vad_events = <<>>
                              THEN vads(K2.cur.out) = vads(K.cur.out)
                              ELSE K2.cur.out = Append(K.cur.out,
                                        create_vad_event(Head(K2.vad_events)))]_vars

\* a chunk with five events has been handled: five VadEvent messages in the
\* detector's order, each followed by the messages of its event
C35_Witness ==
    \E c \in Clients :
        LET K == conn[c]
            vad_msgs == SelectSeq(K.cur.out, LAMBDA m : m.type = "vad")
        IN  /\ K.pc = <<289>> /\ K.transport = "open"
            /\ K.cur.msg = AudioJson(B64Bursts) /\ K.cur.raised = "none"
            /\ vad_msgs = <<create_vad_event("speech_start"), create_vad_event("speech_end"),
                            create_vad_event("speech_start"), create_vad_event("speech_end"),
                            create_vad_event("speech_start")>>
            /\ \E i \in 1..Len(K.cur.out) : K.cur.out[i].type = "barge_in"

\* C36: every final Transcript sent covers at least one byte.  The step that
\* sends one finds the buffer non-empty and leaves it as it is; nothing
\* touches the buffer while that send is awaited, and the handler's next step
\* empties it.  A speech_end event or a stop_listening in speech that finds
\* the buffer empty sends no Transcript: the next message is the Status of the
\* caller, and the session changes only as the caller changes it.
C36_NoFinalTranscriptOverEmptyBuffer ==
    /\ [](\A c \in Clients : \A i \in 1..Len(conn[c].sent) :
            (conn[c].sent[i].type = "transcript" /\ conn[c].sent[i].is_final)
            => conn[c].sent[i].nbytes >= 1)
    /\ [][\A c \in Clients :
            LET K  == conn[c]
                K2 == conn'[c]
                finals == {i \in (Len(K.sent) + 1)..Len(K2.sent) :
                              K2.sent[i].type = "transcript" /\ K2.sent[i].is_final}
            IN  /\ finals # {}
                   => /\ K.session.audio_buffer # <<>>
                      /\ K2.session.audio_buffer = K.session.audio_buffer
                      /\ K2.sent = Append(K.sent,
                            create_transcript_message(Len(K.session.audio_buffer), TRUE))
                      /\ Head(K2.pc) = 144
                /\ (K.pc # <<>> /\ Head(K.pc) = 144)
                   => IF Stepped(c)
                      THEN K.transport = "open" => K2.session.audio_buffer = <<>>
                      ELSE K2.session.audio_buffer = K.session.audio_buffer
                /\ ( /\ Stepped(c) /\ K.transport = "open" /\ K.pc = <<77, 297>>
                     /\ Head(K.vad_events) = "speech_end"
                     /\ K.session.audio_buffer = <<>> )
                   => /\ K2.cur.out = Append(K.cur.out, create_status_message("processing"))
                      /\ K2.session = [K.session EXCEPT !.is_listening = FALSE]
                      /\ K2.pc = <<96, 297>>
                /\ ( /\ Receives(c, ControlJson("stop_listening"))
                     /\ is_speaking(K.session.vad)
                     /\ K.session.audio_buffer = <<>> )
                   => /\ K2.cur.out = <<create_status_message("connected")>>
                      /\ K2.session = [K.session EXCEPT !.is_listening = FALSE,
                                                        !.vad = reset(@)]
                      /\ K2.pc = <<167, 299>>]_vars

\* a chunk whose first speech_end emptied the buffer left the detector in
\* speech; the stop_listening after it sent no Transcript
C36_Witness ==
    \E c \in Clients :
        LET K == conn[c]
        IN  /\ K.pc = <<289>> /\ K.transport = "open" /\ K.received = 2
            /\ K.cur.msg = ControlJson("stop_listening")
            /\ K.cur.buf0 = <<>> /\ K.session.audio_buffer = <<>>
            /\ K.cur.out = <<create_status_message("connected")>>
            /\ Cardinality({i \in 1..Len(K.sent) :
                               /\ K.sent[i].type = "transcript" /\ K.sent[i].is_final
                               /\ K.sent[i].nbytes = Len(b64decode(B64Bursts).bytes)}) = 1
            /\ Cardinality({i \in 1..Len(K.sent) : K.sent[i] = create_vad_event("speech_end")}) = 2

\* C37 as the specification states it: when the handling of an AudioInput
\* message raises and the Error message is sent, the session (audio buffer,
\* detector, is_listening, is_speaking, tts_sequence) is as it was before the
\* message.  The code appends the decoded bytes to the buffer before
\* process_chunk raises, so this is violated.
C37_Original_FailedAudioLeavesSession ==
    [][\A c \in Clients :
          LET K  == conn[c]
              K2 == conn'[c]
              message == parse_client_message(K2.cur.msg)
          IN  ( /\ K.pc = <<289>> /\ K2.received = K.received + 1
                /\ message.raised = "none" /\ message.kind = "audio"
                /\ K2.cur.raised # "none"
                /\ K2.cur.out = <<create_error_message("audio_processing_error")>> )
              => K2.session = K.session]_vars

\* C38: the first message sent on a connection is Status(connected); it is
\* sent in the step that follows accept, by which the session is created and
\* entered in the registrar, before any inbound message is taken; no inbound
\* message is received on a connection on which nothing has been sent, and
\* every step that sends a message leaves the session registered.
C38_ConnectedFirst ==
    /\ [](\A c \in Clients :
            LET K == conn[c]
            IN  /\ K.sent # <<>> => K.sent[1] = create_status_message("connected")
                /\ K.received > 0 => K.sent # <<>>
                /\ K.sent # <<>> => \E i \in 1..Len(issued) :
                                       /\ issued[i].id = K.session.session_id
                                       /\ issued[i].websocket = c)
    /\ [][\A c \in Clients :
            LET K  == conn[c]
                K2 == conn'[c]
            IN  /\ (K.sent = <<>> /\ K2.sent # <<>>)
                   => /\ K.pc = <<276>> /\ K2.pc = <<284>>
                      /\ K2.sent = <<create_status_message("connected")>>
                      /\ K2.received = 0
                      /\ get_session(mgr, K2.session.session_id) = None
                      /\ get_session(mgr', K2.session.session_id) # None
                /\ Len(K2.sent) > Len(K.sent)
                   => get_session(mgr', K2.session.session_id) # None]_vars

\* the first inbound message has been handled; Status(connected) came first
C38_Witness ==
    \E c \in Clients :
        LET K == conn[c]
        IN  /\ K.pc = <<289>> /\ K.transport = "open" /\ K.received = 1
            /\ K.cur.msg = ControlJson("start_listening")
            /\ K.sent = <<create_status_message("connected"),
                          create_status_message("listening")>>
            /\ Registered(K)

(***************************************************************************)
(* Claims about the detector (SpecVAD).                                    *)
(***************************************************************************)
PadN == speech_pad_frames(det.config)
SilM == silence_frames(det.config)

AllLoud(i, j) == \A x \in i..j : flog[x].loud
AllQuiet(i, j) == \A x \in i..j : ~flog[x].loud

\* C3: from Silence with speech_frames = 0, N = speech_pad_frames >= 1 consecutive
\* above-threshold frames give exactly one speech_start, returned by the N-th
\* process_frame call, and nothing from the N-1 calls before it.
C3_SpeechStartOnNthFrame ==
    \A i \in 1..Len(flog) :
        ( /\ PadN >= 1
          /\ i + PadN - 1 <= Len(flog)
          /\ flog[i].pre.state = "silence"
          /\ flog[i].pre.speech_frames = 0
          /\ AllLoud(i, i + PadN - 1) )
        => /\ \A x \in i..(i + PadN - 2) : flog[x].event = "none"
           /\ flog[i + PadN - 1].event = "speech_start"

C3_Witness ==
    \E i \in 1..Len(flog) :
        /\ PadN >= 2
        /\ i + PadN - 1 <= Len(flog)
        /\ flog[i].pre.state = "silence"
        /\ flog[i].pre.speech_frames = 0
        /\ AllLoud(i, i + PadN - 1)
        /\ flog[i + PadN - 1].event = "speech_start"

\* C4: in Speech, a run of M = silence_frames >= 1 consecutive below-threshold
\* frames gives exactly one speech_end, returned by the call for the M-th frame
\* of the run and nothing before it; an above-threshold frame in Speech leaves
\* the silence counter at 0 and emits nothing.
C4_SpeechEndOnMthFrame ==
    /\ \A i \in 2..Len(flog) :
        ( /\ SilM >= 1
          /\ i + SilM - 1 <= Len(flog)
          /\ flog[i].pre.state = "speech"
          /\ flog[i - 1].loud
          /\ AllQuiet(i, i + SilM - 1) )
        => /\ \A x \in i..(i + SilM - 2) : flog[x].event = "none"
           /\ flog[i + SilM - 1].event = "speech_end"
    /\ \A i \in 1..Len(flog) :
        (flog[i].pre.state = "speech" /\ flog[i].loud)
        => /\ flog[i].post.silence_frames = 0
           /\ flog[i].post.state = "speech"
           /\ flog[i].event = "none"

C4_Witness ==
    /\ SilM >= 2
    /\ \E i \in 2..Len(flog) :
        /\ i + SilM - 1 <= Len(flog)
        /\ flog[i].pre.state = "speech"
        /\ flog[i - 1].loud
        /\ AllQuiet(i, i + SilM - 1)
        /\ flog[i + SilM - 1].event = "speech_end"
    /\ \E i \in 1..Len(flog) :
        flog[i].pre.state = "speech" /\ flog[i].loud /\ flog[i].pre.silence_frames > 0

\* C5: a run of consecutive above-threshold frames shorter than speech_pad_frames,
\* fed in Silence, emits nothing and leaves the state Silence, and the
\* below-threshold frame after it sets speech_frames to 0.
RunStartsAt(i) == i = 1 \/ ~flog[i - 1].loud

C5_ShortRunEmitsNothing ==
    \A i \in 1..Len(flog) : \A j \in i..Len(flog) :
        ( /\ RunStartsAt(i)
          /\ flog[i].pre.state = "silence"
          /\ AllLoud(i, j)
          /\ j - i + 1 < PadN )
        => /\ \A x \in i..j : flog[x].event = "none" /\ flog[x].post.state = "silence"
           /\ (j + 1 <= Len(flog) /\ ~flog[j + 1].loud)
              => flog[j + 1].post.speech_frames = 0

C5_Witness ==
    \E i \in 1..Len(flog) :
        /\ RunStartsAt(i)
        /\ flog[i].pre.state = "silence"
        /\ flog[i].loud
        /\ 1 < PadN
        /\ i + 1 <= Len(flog)
        /\ ~flog[i + 1].loud
        /\ flog[i + 1].pre.speech_frames = 1
        /\ flog[i + 1].post.speech_frames = 0

\* k sequential process_frame calls on the consecutive slices of `width` bytes
Slice(buffer, j, width) == SubSeq(buffer, (j - 1) * width + 1, j * width)

SequentialFrames(vad, buffer, width, dtype) ==
    RunFrames(vad, [j \in 1..(Len(buffer) \div width) |-> frombuffer(Slice(buffer, j, width), dtype)])

ChunkCall == vlast.op = "process_chunk" /\ vlast.format \in SupportedFormats

SameAsSequential(width) ==
    LET dtype == FormatDtype(vlast.format)
        seq   == SequentialFrames(vlast.pre, vlast.chunk, width, dtype)
    IN  /\ ~FrombufferRaises(Slice(vlast.chunk, 1, width), dtype)
        /\ ~vlast.raised
        /\ vlast.events = seq.events
        /\ det = seq.vad

\* C6 as stated, for the events alone: a buffer of k * frame_size bytes gives
\* the events of k process_frame calls on its k slices of frame_size bytes.
C6_Original_BytesPerFrame ==
    ( /\ ChunkCall
      /\ Len(vlast.chunk) > 0
      /\ Len(vlast.chunk) % frame_size(vlast.pre.config) = 0
      /\ ~FrombufferRaises(Slice(vlast.chunk, 1, frame_size(vlast.pre.config)),
                           FormatDtype(vlast.format)) )
    => /\ ~vlast.raised
       /\ vlast.events =
              SequentialFrames(vlast.pre, vlast.chunk, frame_size(vlast.pre.config),
                               FormatDtype(vlast.format)).events

\* C6 amended: a buffer of k * frame_size samples (k * frame_size * item size
\* bytes) gives the events, in order, and the detector state of k sequential
\* process_frame calls on its k consecutive slices of frame_size samples.
FrameBytes == frame_size(vlast.pre.config) * ItemSize(FormatDtype(vlast.format))

C6_ChunkEqualsSequentialFrames ==
    (ChunkCall /\ Len(vlast.chunk) % FrameBytes = 0)
    => \/ Len(vlast.chunk) = 0 /\ ~vlast.raised /\ vlast.events = <<>> /\ det = vlast.pre
       \/ Len(vlast.chunk) > 0 /\ SameAsSequential(FrameBytes)

C6_Witness ==
    /\ ChunkCall
    /\ Len(vlast.chunk) = 2 * FrameBytes
    /\ vlast.events # <<>>
    /\ SameAsSequential(FrameBytes)

\* C15 as the specification states it: process_chunk raises for no byte
\* length of its input in a supported format.
C15_Original_NeverRaises ==
    (vlast.op = "process_chunk" /\ vlast.format \in SupportedFormats) => ~vlast.raised

\* C16: with energy_threshold 0.01, frame_duration_ms 30, speech_pad_ms 300 and
\* silence_duration_ms 690, speech_pad_frames is 10 and silence_frames is 23;
\* 10 frames of energy 0.5 fed to a fresh detector give speech_start on frame 10
\* and nothing earlier, and 23 frames of energy 0.0 after them give speech_end on
\* the 23rd and nothing in between.
C16_TenAndTwentyThreeFrames ==
    ( /\ det.config.energy_threshold = 100
      /\ det.config.frame_duration_ms = 30
      /\ det.config.speech_pad_ms = 300
      /\ det.config.silence_duration_ms = 690 )
    => /\ speech_pad_frames(det.config) = 10
       /\ silence_frames(det.config) = 23
       /\ (10 <= Len(flog) /\ AllLoud(1, 10))
          => /\ \A x \in 1..9 : flog[x].event = "none"
             /\ flog[10].event = "speech_start"
       /\ (Len(flog) >= 33 /\ AllLoud(1, 10) /\ AllQuiet(11, 33))
          => /\ \A x \in 11..32 : flog[x].event = "none"
             /\ flog[33].event = "speech_end"

C16_Witness ==
    /\ det.config.silence_duration_ms = 690
    /\ Len(flog) = 33
    /\ AllLoud(1, 10)
    /\ AllQuiet(11, 33)
    /\ flog[1].pre = [state |-> "silence", speech_frames |-> 0, silence_frames |-> 0]
    /\ flog[10].event = "speech_start"
    /\ flog[33].event = "speech_end"

\* C22: the energy history never holds more than 100 entries; the energy of each
\* processed frame is appended at the end and the oldest entry is evicted when
\* the capacity is exceeded, so after n frames the history is the energies of
\* the last min(n, 100) frames in arrival order.
C22_HistoryIsLastHundred ==
    LET n == Len(flog)
        k == Min(n, 100)
        energy(i) == calculate_energy([dtype |-> "int16",
                        samples |-> IF flog[i].loud THEN <<16384, 16384>> ELSE <<0, 0>>])
    IN  /\ Len(det.energy_history) = k
        /\ \A j \in 1..k : det.energy_history[j] = energy(n - k + j)

C22_Witness ==
    /\ Len(flog) = 103
    /\ \A i \in 1..Len(flog) : flog[i].loud <=> i <= 8
    /\ Len(det.energy_history) = 100
    /\ det.energy_history[5] = 5000
    /\ det.energy_history[6] = 0

\* C23 as the specification states it: after reset() the detector is in its
\* initial state (Silence, both counters 0, empty history) whatever
\* process_frame and adapt_threshold calls came before, and a run of frames
\* fed to it gives the events a newly constructed detector with the same
\* configuration gives.
C23_Original_ResetRestoresInitial ==
    LET fresh == VoiceActivityDetector(VADConfig(det.config.speech_pad_ms,
                     det.config.silence_duration_ms, det.config.sample_rate))
        loud  == [dtype |-> "int16", samples |-> <<16384, 16384>>]
        quiet == [dtype |-> "int16", samples |-> <<0, 0>>]
        runs  == {[i \in 1..(n + m) |-> IF i <= n THEN loud ELSE quiet] :
                     n \in {0, 10, 12}, m \in {0, 2}}
    IN  vlast.op = "reset"
        => /\ det.state = "silence"
           /\ det.speech_frames = 0
           /\ det.silence_frames = 0
           /\ det.energy_history = <<>>
           /\ \A frames \in runs : RunFrames(det, frames).events = RunFrames(fresh, frames).events

\* C33: the events of the frames processed since the detector was built or
\* last reset alternate, the first being speech_start, and the detector is in
\* state speech exactly when there is a last event and it is speech_start;
\* every event is returned by a frame that changes the state accordingly.
C33_EventsAlternate ==
    LET events == SelectSeq(flog, LAMBDA e : e.event # "none")
    IN  /\ \A i \in 1..Len(events) :
              /\ events[i].event = IF i % 2 = 1 THEN "speech_start" ELSE "speech_end"
              /\ events[i].pre.state = IF i % 2 = 1 THEN "silence" ELSE "speech"
              /\ events[i].post.state = IF i % 2 = 1 THEN "speech" ELSE "silence"
        /\ (det.state = "speech")
              <=> (events # <<>> /\ events[Len(events)].event = "speech_start")
        /\ det.state \in {"silence", "speech"}

\* speech_start, speech_end, speech_start, with frames without event between
C33_Witness ==
    LET events == SelectSeq(flog, LAMBDA e : e.event # "none")
    IN  /\ Len(events) = 3 /\ Len(flog) = 5
        /\ det.state = "speech"
        /\ flog[1].event = "none"

\* C34: with at least one pad frame and one silence frame configured, the
\* detector's speech_frames stays within 0..speech_pad_frames and its
\* silence_frames within 0..silence_frames, before and after every frame;
\* the frame that returns speech_end leaves speech_frames at 0 and the frame
\* that returns speech_start leaves silence_frames at 0.
C34_CountersBounded ==
    LET N == speech_pad_frames(det.config)
        M == silence_frames(det.config)
        bounded(s) == s.speech_frames \in 0..N /\ s.silence_frames \in 0..M
    IN  (N >= 1 /\ M >= 1)
        => /\ bounded(det)
           /\ \A i \in 1..Len(flog) :
                 /\ bounded(flog[i].pre) /\ bounded(flog[i].post)
                 /\ flog[i].event = "speech_end" => flog[i].post.speech_frames = 0
                 /\ flog[i].event = "speech_start" => flog[i].post.silence_frames = 0

\* two pad frames, two silence frames: speech_start on the second frame with
\* speech_frames at its bound, speech_end on the fourth with silence_frames at
\* its bound
C34_Witness ==
    /\ speech_pad_frames(det.config) = 2 /\ silence_frames(det.config) = 2
    /\ Len(flog) = 4
    /\ flog[2].event = "speech_start" /\ flog[2].post.speech_frames = 2
    /\ flog[2].post.silence_frames = 0
    /\ flog[4].event = "speech_end" /\ flog[4].post.silence_frames = 2
    /\ det.speech_frames = 0 /\ det.silence_frames = 2

====
